---- MODULE Spec2Model ----
(***************************************************************************)
(* A model of the honeypot's log pipeline and traffic classifier:          *)
(*   localTesting/dashboard/classifier.py  (signature-based scoring)       *)
(*   localTesting/parser/bot_parser.py     (log tailer and line parser)    *)
(*                                                                         *)
(* Python strings are modelled as sequences of one-character strings, so   *)
(* that lower(), substring tests, regular-expression search and split()    *)
(* are computed character by character.  A Python dict is modelled as the  *)
(* sequence of its <<key, value>> items in insertion order (the order      *)
(* .items() iterates in); a config dict with optional keys is a record     *)
(* whose DOMAIN holds the keys that are present.                           *)
(***************************************************************************)
EXTENDS Integers, Sequences, FiniteSets, TLC

VARIABLES
    SIGNATURES,   \* classifier.py: the catalog cached at module level
    user_agent,   \* the user agent handed to the classifier
    path,         \* the path handed to the classifier
    result,       \* what classify_traffic returned (<<>>: not called yet)
    detailed,     \* what classify_traffic_detailed returned (<<>>: not called yet)
    path_factor,  \* what classify_path returned (<<>>: not called yet)
    request,      \* bot_parser.py: the request line handed to extract_path
    extracted,    \* what extract_path returned (None: not called yet)
    pc,           \* bot_parser.py: where main / tail_logs stands
    signatures_file, \* the state of bot_signatures.json in the working directory
    signatures,   \* main's `signatures` (<<>>: not loaded)
    file_exists,  \* whether LOG_FILE exists
    file,         \* the characters of LOG_FILE
    f_open,       \* whether tail_logs holds the file handle f
    f_pos,        \* the offset of f
    conn_open,    \* whether the sqlite connection is open
    bot_traffic,  \* the committed rows of table bot_traffic, in rowid order
    last_id,      \* sqlite's AUTOINCREMENT counter of the table
    written,      \* history: the lines the writer appended, in order
    attach_count, \* history: how many lines were written when f.seek ran (-1: not yet)
    first_call,   \* history: the first classification call, with what it returned
    last_call,    \* history: the latest classification call, with what it returned
    n_calls,      \* history: how many classification calls were made
    unwritten,    \* the rest of the line the writer has written only a part of
    db_lock,      \* the connection that holds sqlite's write lock (0: none)
    pending,      \* per connection: the row inserted and not yet committed
    snapshot,     \* what the dashboard's latest query returned
    ip_geolocation, \* the IPs of table ip_geolocation
    list_route,   \* app.py: the route of the filtered list answered last ("none": none yet)
    list_arg,     \* the filter it was asked for
    list_status,  \* "ok", or "error" for the 400 response
    filtered_results \* the entries of the response, each with the rowid it came from

classifier_vars == <<SIGNATURES, user_agent, path, result, detailed, path_factor>>

parser_vars == <<request, extracted>>

tailer_vars == <<pc, signatures_file, signatures, file_exists, file, f_open, f_pos,
                 conn_open, bot_traffic, last_id, written, attach_count>>

calls_vars == <<first_call, last_call, n_calls>>

writer_vars == <<unwritten>>

store_vars == <<db_lock, pending, snapshot, ip_geolocation>>

lists_vars == <<list_route, list_arg, list_status, filtered_results>>

vars == <<classifier_vars, parser_vars, tailer_vars, calls_vars, writer_vars,
          store_vars, lists_vars>>

-----------------------------------------------------------------------------
(* Each specification below runs one part of the program; the variables    *)
(* of the other parts keep these values.                                    *)

\* Python's None, a value no string equals
None == <<"<None>">>

ClassifierUnused ==
    /\ SIGNATURES = <<>>
    /\ user_agent = <<>>
    /\ path = <<>>
    /\ result = <<>>
    /\ detailed = <<>>
    /\ path_factor = <<>>

ParserUnused ==
    /\ request = <<>>
    /\ extracted = None

CallsUnused ==
    /\ first_call = <<>>
    /\ last_call = <<>>
    /\ n_calls = 0

\* the connections that write to the store
Connections == {1, 2}

StoreUnused ==
    /\ db_lock = 0
    /\ pending = [c \in Connections |-> <<>>]
    /\ snapshot = <<>>
    /\ ip_geolocation = {}

ListsUnused ==
    /\ list_route = "none"
    /\ list_arg = <<>>
    /\ list_status = "ok"
    /\ filtered_results = <<>>

TailerUnused ==
    /\ unwritten = <<>>
    /\ StoreUnused
    /\ ListsUnused
    /\ pc = "unused"
    /\ signatures_file = "valid"
    /\ signatures = <<>>
    /\ file_exists = FALSE
    /\ file = <<>>
    /\ f_open = FALSE
    /\ f_pos = 0
    /\ conn_open = FALSE
    /\ bot_traffic = <<>>
    /\ last_id = 0
    /\ written = <<>>
    /\ attach_count = -1

-----------------------------------------------------------------------------
(* Python built-ins used by the code *)

\* the upper-case ASCII letters, each with its lower-case letter
ToLower ==
    [
      A |-> "a", B |-> "b", C |-> "c", D |-> "d", E |-> "e", F |-> "f", G |-> "g",
      H |-> "h", I |-> "i", J |-> "j", K |-> "k", L |-> "l", M |-> "m", N |-> "n",
      O |-> "o", P |-> "p", Q |-> "q", R |-> "r", S |-> "s", T |-> "t", U |-> "u",
      V |-> "v", W |-> "w", X |-> "x", Y |-> "y", Z |-> "z" ]

\* the lower-case ASCII letters, each with its upper-case letter
ToUpper ==
    [
      a |-> "A", b |-> "B", c |-> "C", d |-> "D", e |-> "E", f |-> "F", g |-> "G",
      h |-> "H", i |-> "I", j |-> "J", k |-> "K", l |-> "L", m |-> "M", n |-> "N",
      o |-> "O", p |-> "P", q |-> "Q", r |-> "R", s |-> "S", t |-> "T", u |-> "U",
      v |-> "V", w |-> "W", x |-> "X", y |-> "Y", z |-> "Z" ]

IsUpperChar(c) == c \in DOMAIN ToLower

IsLowerChar(c) == c \in DOMAIN ToUpper

LowerChar(c) == IF c \in DOMAIN ToLower THEN ToLower[c] ELSE c

UpperChar(c) == IF c \in DOMAIN ToUpper THEN ToUpper[c] ELSE c

\* str.lower()
lower(s) == [i \in 1..Len(s) |-> LowerChar(s[i])]

\* str.replace(old, new) for one-character old and new
replace(s, old, new) == [i \in 1..Len(s) |-> IF s[i] = old THEN new ELSE s[i]]

\* str.title(): a letter is upper-cased when it does not follow a letter,
\* lower-cased when it does
title(s) ==
    [i \in 1..Len(s) |->
        IF i > 1 /\ (IsUpperChar(s[i - 1]) \/ IsLowerChar(s[i - 1]))
        THEN LowerChar(s[i])
        ELSE UpperChar(s[i])]

\* the `in` operator on strings: sub occurs in s
StrIn(sub, s) ==
    \E i \in 0..(Len(s) - Len(sub)) : SubSeq(s, i + 1, i + Len(sub)) = sub

\* truthiness of a value that is None or a string
Truthy(x) == x # None /\ x # <<>>

\* dict.get(key, default)
DictGet(d, key, default) == IF key \in DOMAIN d THEN d[key] ELSE default

\* {**a, **b}: the keys of both, b's value where both have the key
DictMerge(a, b) ==
    [k \in (DOMAIN a) \cup (DOMAIN b) |-> IF k \in DOMAIN b THEN b[k] ELSE a[k]]

\* list.insert(0, x)
InsertFront(list, x) == <<x>> \o list

-----------------------------------------------------------------------------
(* re.search, for the fragment of the pattern syntax the catalogs of this *)
(* model use: literal characters, "." (any character but a newline),     *)
(* "^" (start of the string) and "$" (end of the string, or before a     *)
(* final newline).                                                        *)

CharEq(a, b, ignorecase) ==
    IF ignorecase THEN LowerChar(a) = LowerChar(b) ELSE a = b

RECURSIVE re_match_at(_, _, _, _, _)
re_match_at(pattern, s, i, p, ignorecase) ==
    IF i > Len(pattern) THEN TRUE
    ELSE CASE pattern[i] = "^" ->
                 p = 1 /\ re_match_at(pattern, s, i + 1, p, ignorecase)
           [] pattern[i] = "$" ->
                 /\ p = Len(s) + 1 \/ (p = Len(s) /\ s[p] = "\n")
                 /\ re_match_at(pattern, s, i + 1, p, ignorecase)
           [] pattern[i] = "." ->
                 /\ p <= Len(s)
                 /\ s[p] # "\n"
                 /\ re_match_at(pattern, s, i + 1, p + 1, ignorecase)
           [] OTHER ->
                 /\ p <= Len(s)
                 /\ CharEq(pattern[i], s[p], ignorecase)
                 /\ re_match_at(pattern, s, i + 1, p + 1, ignorecase)

re_search(pattern, s, ignorecase) ==
    \E p \in 1..(Len(s) + 1) : re_match_at(pattern, s, 1, p, ignorecase)

-----------------------------------------------------------------------------
(* string literals of classifier.py *)

str_benign_ == <<"b", "e", "n", "i", "g", "n", "_">>
str_scanner_ == <<"s", "c", "a", "n", "n", "e", "r", "_">>
str_generic_ == <<"g", "e", "n", "e", "r", "i", "c", "_">>
str_recon_ == <<"r", "e", "c", "o", "n", "_">>
str_malicious_ == <<"m", "a", "l", "i", "c", "i", "o", "u", "s", "_">>
str_unknown == <<"u", "n", "k", "n", "o", "w", "n">>
str_benign == <<"b", "e", "n", "i", "g", "n">>
str_reconnaissance ==
    <<"r", "e", "c", "o", "n", "n", "a", "i", "s", "s", "a", "n", "c", "e">>
str_malicious == <<"m", "a", "l", "i", "c", "i", "o", "u", "s">>
str_ua_matches ==
    <<"U", "s", "e", "r", "-", "A", "g", "e", "n", "t", " ",
      "m", "a", "t", "c", "h", "e", "s", " ">>
str_colon == <<":", " ">>
str_scanner_detected ==
    <<"S", "e", "c", "u", "r", "i", "t", "y", " ", "s", "c", "a", "n", "n", "e", "r",
      " ", "d", "e", "t", "e", "c", "t", "e", "d", ":", " ">>
str_generic_client ==
    <<"G", "e", "n", "e", "r", "i", "c", " ", "H", "T", "T", "P", " ",
      "c", "l", "i", "e", "n", "t", ":", " ">>
str_path_pattern ==
    <<"P", "a", "t", "h", " ", "p", "a", "t", "t", "e", "r", "n", ":", " ">>
str_malicious_pattern ==
    <<"M", "a", "l", "i", "c", "i", "o", "u", "s", " ",
      "p", "a", "t", "t", "e", "r", "n", ":", " ">>

-----------------------------------------------------------------------------
(* classifier.py: the user-agent factor *)

\* the patterns of a user-agent config, `config.get('user_agents', [])`
ua_patterns(config) == DictGet(config, "user_agents", <<>>)

\* the first pattern of the config that occurs in the user agent (0: none)
first_ua_pattern(config, user_agent_lower) ==
    LET hits == {j \in 1..Len(ua_patterns(config)) :
                    StrIn(lower(ua_patterns(config)[j]), user_agent_lower)}
    IN  IF hits = {} THEN 0 ELSE CHOOSE j \in hits : \A k \in hits : j <= k

\* the first category of the tier one of whose patterns occurs (0: none)
first_ua_category(items, user_agent_lower) ==
    LET hits == {i \in 1..Len(items) :
                    first_ua_pattern(items[i][2], user_agent_lower) # 0}
    IN  IF hits = {} THEN 0 ELSE CHOOSE i \in hits : \A k \in hits : i <= k

\* classify_user_agent with the generic clients checked before the scanners
classify_user_agent_generic_first(sigs, user_agent_lower) ==
    LET benign == DictGet(sigs, "benign", <<>>)
        scanners == DictGet(sigs, "security_scanners", <<>>)
        generic == DictGet(sigs, "generic_clients", <<>>)
        b == first_ua_category(benign, user_agent_lower)
        s == first_ua_category(scanners, user_agent_lower)
        g == first_ua_category(generic, user_agent_lower)
    IN  IF b # 0
        THEN <<str_benign_ \o benign[b][1],
               DictGet(benign[b][2], "threat_score", -10)>>
        ELSE IF g # 0
        THEN <<str_generic_ \o generic[g][1],
               DictGet(generic[g][2], "threat_score", 5)>>
        ELSE IF s # 0
        THEN <<str_scanner_ \o scanners[s][1],
               DictGet(scanners[s][2], "threat_score", 20)>>
        ELSE <<None, 0>>

classify_user_agent(sigs, user_agent_lower) ==
    LET benign == DictGet(sigs, "benign", <<>>)
        scanners == DictGet(sigs, "security_scanners", <<>>)
        generic == DictGet(sigs, "generic_clients", <<>>)
        b == first_ua_category(benign, user_agent_lower)
        s == first_ua_category(scanners, user_agent_lower)
        g == first_ua_category(generic, user_agent_lower)
    IN  IF b # 0
        THEN <<str_benign_ \o benign[b][1],
               DictGet(benign[b][2], "threat_score", -10)>>
        ELSE IF s # 0
        THEN <<str_scanner_ \o scanners[s][1],
               DictGet(scanners[s][2], "threat_score", 20)>>
        ELSE IF g # 0
        THEN <<str_generic_ \o generic[g][1],
               DictGet(generic[g][2], "threat_score", 5)>>
        ELSE <<None, 0>>

classify_user_agent_detailed(sigs, user_agent_lower) ==
    LET benign == DictGet(sigs, "benign", <<>>)
        scanners == DictGet(sigs, "security_scanners", <<>>)
        generic == DictGet(sigs, "generic_clients", <<>>)
        b == first_ua_category(benign, user_agent_lower)
        s == first_ua_category(scanners, user_agent_lower)
        g == first_ua_category(generic, user_agent_lower)
        pat(items, i) ==
            ua_patterns(items[i][2])[first_ua_pattern(items[i][2], user_agent_lower)]
    IN  IF b # 0
        THEN <<str_benign_ \o benign[b][1],
               DictGet(benign[b][2], "threat_score", -10),
               str_ua_matches \o benign[b][1] \o str_colon \o pat(benign, b)>>
        ELSE IF s # 0
        THEN <<str_scanner_ \o scanners[s][1],
               DictGet(scanners[s][2], "threat_score", 20),
               str_scanner_detected \o pat(scanners, s)>>
        ELSE IF g # 0
        THEN <<str_generic_ \o generic[g][1],
               DictGet(generic[g][2], "threat_score", 5),
               str_generic_client \o pat(generic, g)>>
        ELSE <<None, 0, None>>

-----------------------------------------------------------------------------
(* classifier.py: the path factor.  Each loop of the code is a recursive  *)
(* operator over the index it iterates; acc is the loop's local state.     *)

path_patterns(config) == DictGet(config, "path_patterns", <<>>)

\* recon_patterns without the `break`: the scan goes on after a match
RECURSIVE recon_patterns_no_break(_, _, _, _, _)
recon_patterns_no_break(recon_type, config, path_lower, j, acc) ==
    IF j > Len(DictGet(config, "path_patterns", <<>>)) THEN acc
    ELSE IF re_search(DictGet(config, "path_patterns", <<>>)[j], path_lower, TRUE)
    THEN recon_patterns_no_break(recon_type, config, path_lower, j + 1,
             [categories |-> Append(acc.categories, str_recon_ \o recon_type),
              total_score |-> acc.total_score + DictGet(config, "threat_score", 10)])
    ELSE recon_patterns_no_break(recon_type, config, path_lower, j + 1, acc)

\* recon_patterns with insert(0, ...) in place of append()
RECURSIVE recon_patterns_insert_front(_, _, _, _, _)
recon_patterns_insert_front(recon_type, config, path_lower, j, acc) ==
    IF j > Len(DictGet(config, "path_patterns", <<>>)) THEN acc
    ELSE IF re_search(DictGet(config, "path_patterns", <<>>)[j], path_lower, TRUE)
    THEN [categories |-> <<str_recon_ \o recon_type>> \o acc.categories,
          total_score |-> acc.total_score + DictGet(config, "threat_score", 10)]
    ELSE recon_patterns_insert_front(recon_type, config, path_lower, j + 1, acc)

\* the inner loop over one reconnaissance category's patterns, from pattern j
RECURSIVE recon_patterns(_, _, _, _, _)
recon_patterns(recon_type, config, path_lower, j, acc) ==
    IF j > Len(path_patterns(config)) THEN acc
    ELSE IF re_search(path_patterns(config)[j], path_lower, TRUE)
    THEN [categories |-> Append(acc.categories, str_recon_ \o recon_type),
          total_score |-> acc.total_score + DictGet(config, "threat_score", 10)]
    ELSE recon_patterns(recon_type, config, path_lower, j + 1, acc)

\* the loop over the reconnaissance tier's categories, from category k
RECURSIVE recon_loop(_, _, _, _)
recon_loop(items, path_lower, k, acc) ==
    IF k > Len(items) THEN acc
    ELSE recon_loop(items, path_lower, k + 1,
                    recon_patterns(items[k][1], items[k][2], path_lower, 1, acc))

\* malicious_patterns with append() in place of insert(0, ...)
RECURSIVE malicious_patterns_append(_, _, _, _, _)
malicious_patterns_append(malicious_type, config, path_lower, j, acc) ==
    IF j > Len(DictGet(config, "path_patterns", <<>>)) THEN acc
    ELSE IF re_search(DictGet(config, "path_patterns", <<>>)[j], path_lower, TRUE)
    THEN [categories |-> Append(acc.categories, str_malicious_ \o malicious_type),
          total_score |-> acc.total_score + DictGet(config, "threat_score", 50)]
    ELSE malicious_patterns_append(malicious_type, config, path_lower, j + 1, acc)

\* the inner loop over one malicious category's patterns, from pattern j
RECURSIVE malicious_patterns(_, _, _, _, _)
malicious_patterns(malicious_type, config, path_lower, j, acc) ==
    IF j > Len(path_patterns(config)) THEN acc
    ELSE IF re_search(path_patterns(config)[j], path_lower, TRUE)
    THEN [categories |-> InsertFront(acc.categories, str_malicious_ \o malicious_type),
          total_score |-> acc.total_score + DictGet(config, "threat_score", 50)]
    ELSE malicious_patterns(malicious_type, config, path_lower, j + 1, acc)

\* the loop over the malicious tier's categories, from category k
RECURSIVE malicious_loop(_, _, _, _)
malicious_loop(items, path_lower, k, acc) ==
    IF k > Len(items) THEN acc
    ELSE malicious_loop(items, path_lower, k + 1,
                        malicious_patterns(items[k][1], items[k][2], path_lower, 1, acc))

\* classify_path giving up when the catalog has no reconnaissance tier
classify_path_needs_tiers(sigs, path_lower) ==
    LET start == [categories |-> <<>>, total_score |-> 0]
        recon == recon_loop(DictGet(sigs, "reconnaissance", <<>>), path_lower, 1, start)
        final == malicious_loop(DictGet(sigs, "malicious", <<>>), path_lower, 1, recon)
    IN  IF "reconnaissance" \in DOMAIN sigs
        THEN <<final.categories, final.total_score>>
        ELSE <<start.categories, start.total_score>>

classify_path(sigs, path_lower) ==
    LET start == [categories |-> <<>>, total_score |-> 0]
        recon == recon_loop(DictGet(sigs, "reconnaissance", <<>>), path_lower, 1, start)
        final == malicious_loop(DictGet(sigs, "malicious", <<>>), path_lower, 1, recon)
    IN  <<final.categories, final.total_score>>

\* config.get('description', <type>.replace('_', ' ').title())
description_of(type, config) ==
    DictGet(config, "description", title(replace(type, "_", " ")))

RECURSIVE recon_patterns_detailed(_, _, _, _, _)
recon_patterns_detailed(recon_type, config, path_lower, j, acc) ==
    IF j > Len(path_patterns(config)) THEN acc
    ELSE IF re_search(path_patterns(config)[j], path_lower, TRUE)
    THEN [categories |-> Append(acc.categories, str_recon_ \o recon_type),
          total_score |-> acc.total_score + DictGet(config, "threat_score", 10),
          matched_patterns |->
              Append(acc.matched_patterns,
                     str_path_pattern \o description_of(recon_type, config))]
    ELSE recon_patterns_detailed(recon_type, config, path_lower, j + 1, acc)

RECURSIVE recon_loop_detailed(_, _, _, _)
recon_loop_detailed(items, path_lower, k, acc) ==
    IF k > Len(items) THEN acc
    ELSE recon_loop_detailed(items, path_lower, k + 1,
             recon_patterns_detailed(items[k][1], items[k][2], path_lower, 1, acc))

\* malicious_patterns_detailed with the reconnaissance tier's default score
RECURSIVE malicious_patterns_detailed_default10(_, _, _, _, _)
malicious_patterns_detailed_default10(malicious_type, config, path_lower, j, acc) ==
    IF j > Len(DictGet(config, "path_patterns", <<>>)) THEN acc
    ELSE IF re_search(DictGet(config, "path_patterns", <<>>)[j], path_lower, TRUE)
    THEN [categories |-> InsertFront(acc.categories, str_malicious_ \o malicious_type),
          total_score |-> acc.total_score + DictGet(config, "threat_score", 10),
          matched_patterns |->
              InsertFront(acc.matched_patterns,
                          str_malicious_pattern
                              \o DictGet(config, "description",
                                         title(replace(malicious_type, "_", " "))))]
    ELSE malicious_patterns_detailed_default10(malicious_type, config, path_lower,
                                               j + 1, acc)

RECURSIVE malicious_patterns_detailed(_, _, _, _, _)
malicious_patterns_detailed(malicious_type, config, path_lower, j, acc) ==
    IF j > Len(path_patterns(config)) THEN acc
    ELSE IF re_search(path_patterns(config)[j], path_lower, TRUE)
    THEN [categories |-> InsertFront(acc.categories, str_malicious_ \o malicious_type),
          total_score |-> acc.total_score + DictGet(config, "threat_score", 50),
          matched_patterns |->
              InsertFront(acc.matched_patterns,
                          str_malicious_pattern \o description_of(malicious_type, config))]
    ELSE malicious_patterns_detailed(malicious_type, config, path_lower, j + 1, acc)

RECURSIVE malicious_loop_detailed(_, _, _, _)
malicious_loop_detailed(items, path_lower, k, acc) ==
    IF k > Len(items) THEN acc
    ELSE malicious_loop_detailed(items, path_lower, k + 1,
             malicious_patterns_detailed(items[k][1], items[k][2], path_lower, 1, acc))

classify_path_detailed(sigs, path_lower) ==
    LET start == [categories |-> <<>>, total_score |-> 0, matched_patterns |-> <<>>]
        recon == recon_loop_detailed(DictGet(sigs, "reconnaissance", <<>>),
                                     path_lower, 1, start)
        final == malicious_loop_detailed(DictGet(sigs, "malicious", <<>>),
                                         path_lower, 1, recon)
    IN  <<final.categories, final.total_score, final.matched_patterns>>

-----------------------------------------------------------------------------
(* classifier.py: assembly *)

\* threat_level_of with `score <= 20` for the reconnaissance band
threat_level_of_le20(score) ==
    IF score < 0 THEN str_benign
    ELSE IF score <= 20 THEN str_reconnaissance
    ELSE str_malicious

\* the band of a total score
threat_level_of(score) ==
    IF score < 0 THEN str_benign
    ELSE IF score < 20 THEN str_reconnaissance
    ELSE str_malicious

\* primary_of falling back to "unknown" unless several categories matched
primary_of_needs_two(categories) ==
    IF Len(categories) > 1 THEN categories[1] ELSE str_unknown

\* categories[0] if categories else "unknown"
primary_of(categories) ==
    IF categories # <<>> THEN categories[1] ELSE str_unknown

\* classify_traffic with `score = path_score` in place of `score += path_score`
classify_traffic_score_assigned(sigs, ua, pth) ==
    LET ua_res == classify_user_agent(sigs, lower(ua))
        path_res == classify_path(sigs, lower(pth))
        categories ==
            (IF Truthy(ua_res[1]) THEN <<ua_res[1]>> ELSE <<>>) \o path_res[1]
        score == path_res[2]
    IN  <<primary_of(categories), threat_level_of(score), score>>

\* classify_traffic with the user-agent category appended after the path's
classify_traffic_path_first(sigs, ua, pth) ==
    LET ua_res == classify_user_agent(sigs, lower(ua))
        path_res == classify_path(sigs, lower(pth))
        categories ==
            path_res[1] \o (IF Truthy(ua_res[1]) THEN <<ua_res[1]>> ELSE <<>>)
        score == (IF Truthy(ua_res[1]) THEN ua_res[2] ELSE 0) + path_res[2]
    IN  <<primary_of(categories), threat_level_of(score), score>>

classify_traffic(sigs, ua, pth) ==
    LET user_agent_lower == lower(ua)
        path_lower == lower(pth)
        ua_res == classify_user_agent(sigs, user_agent_lower)
        path_res == classify_path(sigs, path_lower)
        categories ==
            (IF Truthy(ua_res[1]) THEN <<ua_res[1]>> ELSE <<>>) \o path_res[1]
        score == (IF Truthy(ua_res[1]) THEN ua_res[2] ELSE 0) + path_res[2]
    IN  <<primary_of(categories), threat_level_of(score), score>>

\* classify_traffic_detailed with the user agent's evidence appended after
\* the path's
classify_traffic_detailed_evidence_last(sigs, ua, pth) ==
    LET user_agent_lower == lower(ua)
        path_lower == lower(pth)
        ua_res == classify_user_agent_detailed(sigs, user_agent_lower)
        path_res == classify_path_detailed(sigs, path_lower)
        categories ==
            (IF Truthy(ua_res[1]) THEN <<ua_res[1]>> ELSE <<>>) \o path_res[1]
        score == (IF Truthy(ua_res[1]) THEN ua_res[2] ELSE 0) + path_res[2]
        matched_patterns ==
            path_res[3]
                \o (IF Truthy(ua_res[1]) /\ Truthy(ua_res[3]) THEN <<ua_res[3]>> ELSE <<>>)
    IN  [category |-> primary_of(categories),
         threat_level |-> threat_level_of(score),
         threat_score |-> score,
         matched_patterns |-> matched_patterns]

classify_traffic_detailed(sigs, ua, pth) ==
    LET user_agent_lower == lower(ua)
        path_lower == lower(pth)
        ua_res == classify_user_agent_detailed(sigs, user_agent_lower)
        path_res == classify_path_detailed(sigs, path_lower)
        categories ==
            (IF Truthy(ua_res[1]) THEN <<ua_res[1]>> ELSE <<>>) \o path_res[1]
        score == (IF Truthy(ua_res[1]) THEN ua_res[2] ELSE 0) + path_res[2]
        matched_patterns ==
            (IF Truthy(ua_res[1]) /\ Truthy(ua_res[3]) THEN <<ua_res[3]>> ELSE <<>>)
                \o path_res[3]
    IN  [category |-> primary_of(categories),
         threat_level |-> threat_level_of(score),
         threat_score |-> score,
         matched_patterns |-> matched_patterns]

\* classify_entry with the entry unpacked last: {'category': ..., **entry}
classify_entry_entry_last(sigs, entry) ==
    LET merged(res) == DictMerge([category |-> res[1],
                                  threat_level |-> res[2],
                                  threat_score |-> res[3]], entry)
    IN  CHOOSE out \in { merged(res) :
                           res \in {classify_traffic(sigs,
                                        DictGet(entry, "user_agent", <<>>),
                                        DictGet(entry, "path", <<>>))} } : TRUE

\* {**entry, 'category': ..., 'threat_level': ..., 'threat_score': ...};
\* classify_traffic is called once and its tuple unpacked into res
classify_entry(sigs, entry) ==
    LET merged(res) == DictMerge(entry, [category |-> res[1],
                                         threat_level |-> res[2],
                                         threat_score |-> res[3]])
    IN  CHOOSE out \in { merged(res) :
                           res \in {classify_traffic(sigs,
                                        DictGet(entry, "user_agent", <<>>),
                                        DictGet(entry, "path", <<>>))} } : TRUE

-----------------------------------------------------------------------------
(* The inputs: catalogs, user agents and paths *)

\* the longest user agent and the longest path
MaxLen == 2

InputChar == {"a", "B"}

Strings(n) == UNION {[1..k -> InputChar] : k \in 0..n}

\* user-agent categories, as <<name, config>> items
ua_google == <<<<"g", "b">>,
               [user_agents |-> << <<"A", "b">> >>, threat_score |-> -10]>>
ua_monitor == <<<<"m", "o", "n">>,
                [user_agents |-> << <<"b", "b">>, <<"B">> >>, threat_score |-> -1]>>
ua_nikto == <<<<"n", "k">>, [user_agents |-> << <<"b", "B">> >>]>>
ua_curl == <<<<"c", "u", "r", "l">>,
             [user_agents |-> << <<"a", "a">> >>, threat_score |-> 5]>>
ua_wget == <<<<"w", "g">>, [user_agents |-> << <<"a", "A">>, <<"b">> >>]>>

\* path categories, as <<name, config>> items
recon_wp == <<<<"w", "p">>,
              [path_patterns |-> << <<"b">> >>, threat_score |-> 10,
               description |-> <<"W", "P">>]>>
recon_admin == <<<<"a", "d", "_", "m">>,
                 [path_patterns |-> << <<"B", ".">>, <<".", "b">> >>]>>
mal_env == <<<<"e", "n", "v">>, [path_patterns |-> << <<"^", "B", ".">> >>]>>
mal_shell == <<<<"s", "h">>,
               [path_patterns |-> << <<"b", "a">>, <<".", "A", "$">> >>,
                threat_score |-> 20, description |-> <<"S", "h">>]>>

\* the user-agent tiers of a catalog; a tier may be absent
UaTiers ==
    { <<>>,
      [benign |-> <<ua_google>>, security_scanners |-> <<ua_nikto>>,
       generic_clients |-> <<ua_curl>>],
      [benign |-> <<ua_monitor, ua_google>>, generic_clients |-> <<ua_curl>>],
      [benign |-> <<>>, security_scanners |-> <<ua_nikto>>,
       generic_clients |-> <<ua_wget, ua_curl>>] }

ReconTiers ==
    { <<>>, [reconnaissance |-> <<>>],
      [reconnaissance |-> <<recon_wp, recon_admin>>],
      [reconnaissance |-> <<recon_admin, recon_wp>>] }

MaliciousTiers ==
    { <<>>, [malicious |-> <<mal_env, mal_shell>>],
      [malicious |-> <<mal_shell, mal_env>>] }

\* the catalogs bot_signatures.json may hold
Catalogs ==
    { DictMerge(u, DictMerge(r, m)) :
        u \in UaTiers, r \in ReconTiers, m \in MaliciousTiers }

-----------------------------------------------------------------------------
(* The classifier as a state machine: a catalog is loaded, a request is   *)
(* drawn, and the classifier's entry points are applied to it.            *)

ClassifierInit ==
    /\ SIGNATURES \in Catalogs
    /\ user_agent \in Strings(MaxLen)
    /\ path \in Strings(MaxLen)
    /\ result = <<>>
    /\ detailed = <<>>
    /\ path_factor = <<>>
    /\ ParserUnused
    /\ TailerUnused
    /\ CallsUnused

ClassifyTraffic ==
    /\ result' = classify_traffic(SIGNATURES, user_agent, path)
    /\ UNCHANGED <<SIGNATURES, user_agent, path, detailed, path_factor>>
    /\ UNCHANGED <<parser_vars, tailer_vars, calls_vars, writer_vars, store_vars,
                   lists_vars>>

ClassifyTrafficDetailed ==
    /\ detailed' = classify_traffic_detailed(SIGNATURES, user_agent, path)
    /\ UNCHANGED <<SIGNATURES, user_agent, path, result, path_factor>>
    /\ UNCHANGED <<parser_vars, tailer_vars, calls_vars, writer_vars, store_vars,
                   lists_vars>>

ClassifyPath ==
    /\ path_factor' = classify_path(SIGNATURES, lower(path))
    /\ UNCHANGED <<SIGNATURES, user_agent, path, result, detailed>>
    /\ UNCHANGED <<parser_vars, tailer_vars, calls_vars, writer_vars, store_vars,
                   lists_vars>>

ClassifierNext == ClassifyTraffic \/ ClassifyTrafficDetailed \/ ClassifyPath

SpecClassify == ClassifierInit /\ [][ClassifierNext]_vars

-----------------------------------------------------------------------------
(* The classifier called again and again on stored rows, as the dashboard *)
(* does: through classify_entry on whole rows, and through classify_traffic *)
(* on the user agent and path of a row.                                    *)

\* how many classification calls are made
MaxCalls == 3

\* the catalogs with all five tiers
FullCatalogs == {c \in Catalogs : Cardinality(DOMAIN c) = 5}

\* rows of bot_traffic as the dashboard reads them
StoredRows ==
    { [id |-> 1, timestamp |-> <<"t">>, ip |-> ip, user_agent |-> ua, path |-> p,
       status |-> 200, category |-> cat, referer |-> <<"-">>] :
        ip \in {<<"1">>, <<"2">>},
        ua \in {<<"a", "B">>, <<"B">>},
        p \in {<<"B", "a">>, <<"a">>},
        cat \in {str_unknown, <<"c", "r", "a", "w", "l">>} }

\* the two columns the statistics queries select
TwoColumnRows ==
    { [user_agent |-> r.user_agent, path |-> r.path] : r \in StoredRows }

CallsInit ==
    /\ SIGNATURES \in FullCatalogs
    /\ user_agent = <<>>
    /\ path = <<>>
    /\ result = <<>>
    /\ detailed = <<>>
    /\ path_factor = <<>>
    /\ first_call = <<>>
    /\ last_call = <<>>
    /\ n_calls = 0
    /\ ParserUnused
    /\ TailerUnused

\* the call is entered in the history
Recorded(via, entry, returned) ==
    /\ n_calls < MaxCalls
    /\ n_calls' = n_calls + 1
    /\ last_call' = [via |-> via, entry |-> entry, returned |-> returned]
    /\ first_call' = IF n_calls = 0 THEN last_call' ELSE first_call

\* classify_entry(row)
CallClassifyEntry ==
    /\ \E row \in StoredRows :
           \E out \in {classify_entry(SIGNATURES, row)} :
               Recorded("classify_entry", row, out)
    /\ UNCHANGED <<classifier_vars, parser_vars, tailer_vars, writer_vars, store_vars,
                   lists_vars>>

\* classify_traffic(row['user_agent'], row['path'])
CallClassifyTraffic ==
    /\ \E row \in TwoColumnRows :
           \E res \in {classify_traffic(SIGNATURES, row.user_agent, row.path)} :
               Recorded("classify_traffic", row, res)
    /\ UNCHANGED <<classifier_vars, parser_vars, tailer_vars, writer_vars, store_vars,
                   lists_vars>>

CallsNext == CallClassifyEntry \/ CallClassifyTraffic

SpecCalls == CallsInit /\ [][CallsNext]_vars

-----------------------------------------------------------------------------
(* bot_parser.py: the request line *)

\* the whitespace str.split() splits on
Whitespace == {" ", "\t", "\n", "\r", "\f"}

\* str.split(' '): every single space separates, empty tokens are kept
RECURSIVE split_on_space(_, _, _, _)
split_on_space(s, i, parts, cur) ==
    IF i > Len(s) THEN Append(parts, cur)
    ELSE IF s[i] = " "
    THEN split_on_space(s, i + 1, Append(parts, cur), <<>>)
    ELSE split_on_space(s, i + 1, parts, Append(cur, s[i]))

\* str.split(): the scan from character i, with the tokens found so far and
\* the token being read; runs of whitespace separate, no token is empty
RECURSIVE split(_, _, _, _)
split(s, i, parts, cur) ==
    IF i > Len(s) THEN (IF cur # <<>> THEN Append(parts, cur) ELSE parts)
    ELSE IF s[i] \in Whitespace
    THEN split(s, i + 1, IF cur # <<>> THEN Append(parts, cur) ELSE parts, <<>>)
    ELSE split(s, i + 1, parts, Append(cur, s[i]))

extract_path(req) ==
    LET parts == split(req, 1, <<>>, <<>>)
    IN  IF Len(parts) > 1 THEN parts[2] ELSE <<"/">>

\* the longest request line
MaxRequestLen == 5

RequestChar == {" ", "\t", "/", "G"}

RequestLines(n) == UNION {[1..k -> RequestChar] : k \in 0..n}

ParserInit ==
    /\ request \in RequestLines(MaxRequestLen)
    /\ extracted = None
    /\ ClassifierUnused
    /\ TailerUnused
    /\ CallsUnused

ExtractPath ==
    /\ extracted' = extract_path(request)
    /\ UNCHANGED request
    /\ UNCHANGED <<classifier_vars, tailer_vars, calls_vars, writer_vars, store_vars,
                   lists_vars>>

ParserNext == ExtractPath

SpecParse == ParserInit /\ [][ParserNext]_vars

-----------------------------------------------------------------------------
(* bot_parser.py: parse_log_line.  The pattern                             *)
(*   (\S+) - \[(.*?)\] "(.*?)" (\d+) (\d+) "(.*?)" "(.*?)"                 *)
(* is the sequence of its pieces; re.match tries them from the start of    *)
(* the line, a lazy group taking as few characters as lets the rest match  *)
(* and a greedy one as many.                                               *)

LogPattern ==
    << [kind |-> "S+", text |-> <<>>],
       [kind |-> "lit", text |-> <<" ", "-", " ", "[">>],
       [kind |-> ".*?", text |-> <<>>],
       [kind |-> "lit", text |-> <<"]", " ", "\"">>],
       [kind |-> ".*?", text |-> <<>>],
       [kind |-> "lit", text |-> <<"\"", " ">>],
       [kind |-> "d+", text |-> <<>>],
       [kind |-> "lit", text |-> <<" ">>],
       [kind |-> "d+", text |-> <<>>],
       [kind |-> "lit", text |-> <<" ", "\"">>],
       [kind |-> ".*?", text |-> <<>>],
       [kind |-> "lit", text |-> <<"\"", " ", "\"">>],
       [kind |-> ".*?", text |-> <<>>],
       [kind |-> "lit", text |-> <<"\"">>] >>

Digits == <<"0", "1", "2", "3", "4", "5", "6", "7", "8", "9">>

IsDigit(c) == \E d \in DOMAIN Digits : Digits[d] = c

\* whether the character is in the class of a greedy piece
InClass(kind, c) == IF kind = "d+" THEN IsDigit(c) ELSE c \notin Whitespace

\* how many characters from position p on are in the class
RECURSIVE ClassRun(_, _, _)
ClassRun(kind, s, p) ==
    IF p <= Len(s) /\ InClass(kind, s[p]) THEN 1 + ClassRun(kind, s, p + 1) ELSE 0

\* the result of a failed match
NoMatch == <<0>>

\* the match of pieces i.. at position p: the position after each piece
RECURSIVE log_match(_, _, _)
RECURSIVE log_match_lazy(_, _, _, _)
RECURSIVE log_match_greedy(_, _, _, _)
log_match(s, i, p) ==
    IF i > Len(LogPattern) THEN <<>>
    ELSE IF LogPattern[i].kind = "lit"
    THEN LET q == p + Len(LogPattern[i].text)
         IN  IF q - 1 <= Len(s) /\ SubSeq(s, p, q - 1) = LogPattern[i].text
             THEN LET rest == log_match(s, i + 1, q)
                  IN  IF rest = NoMatch THEN NoMatch ELSE <<q>> \o rest
             ELSE NoMatch
    ELSE IF LogPattern[i].kind = ".*?"
    THEN log_match_lazy(s, i, p, 0)
    ELSE log_match_greedy(s, i, p, ClassRun(LogPattern[i].kind, s, p))

\* the lazy group takes k characters, and one more when the rest fails
log_match_lazy(s, i, p, k) ==
    LET rest == log_match(s, i + 1, p + k)
    IN  IF rest # NoMatch THEN <<p + k>> \o rest
        ELSE IF p + k <= Len(s) /\ s[p + k] # "\n"
        THEN log_match_lazy(s, i, p, k + 1)
        ELSE NoMatch

\* the greedy group takes k characters, and one fewer when the rest fails
log_match_greedy(s, i, p, k) ==
    IF k < 1 THEN NoMatch
    ELSE LET rest == log_match(s, i + 1, p + k)
         IN  IF rest # NoMatch THEN <<p + k>> \o rest
             ELSE log_match_greedy(s, i, p, k - 1)

\* int() of a string of digits
RECURSIVE int(_)
int(s) ==
    IF s = <<>> THEN 0
    ELSE 10 * int(SubSeq(s, 1, Len(s) - 1))
             + (CHOOSE d \in DOMAIN Digits : Digits[d] = s[Len(s)]) - 1

\* the None parse_log_line returns: tail_logs tests `if entry`, which holds
\* of every entry and of neither None nor an empty dict
NoEntry == <<>>

parse_log_line(line) ==
    LET ends == log_match(line, 1, 1)
        group(i) == SubSeq(line, IF i = 1 THEN 1 ELSE ends[i - 1], ends[i] - 1)
    IN  IF ends = NoMatch THEN NoEntry
        ELSE [ip |-> group(1),
              timestamp |-> group(3),
              request |-> group(5),
              status |-> int(group(7)),
              referer |-> group(11),
              user_agent |-> group(13)]

\* the first category of the parser's signatures one of whose patterns
\* occurs in the user agent
classify_bot(ua, sigs) ==
    LET user_agent_lower == lower(ua)
        hits == {i \in 1..Len(sigs) :
                    \E j \in 1..Len(sigs[i][2]) :
                        StrIn(lower(sigs[i][2][j]), user_agent_lower)}
    IN  IF hits = {} THEN str_unknown
        ELSE sigs[CHOOSE i \in hits : \A k \in hits : i <= k][1]

-----------------------------------------------------------------------------
(* The log file and its writer *)

\* how many lines the writer appends
MaxLines == 4

\* str() of a natural number
RECURSIVE str(_)
str(n) == IF n < 10 THEN <<Digits[n + 1]>> ELSE str(n \div 10) \o <<Digits[(n % 10) + 1]>>

\* ' '.join(tokens)
RECURSIVE join(_)
join(tokens) ==
    IF tokens = <<>> THEN <<>>
    ELSE IF Len(tokens) = 1 THEN tokens[1]
    ELSE tokens[1] \o <<" ">> \o join(Tail(tokens))

\* the requests the web server logs: what it received, as the tokens of the
\* request line, and what it answered; the request target is a path, is
\* missing, is an absolute URL (a proxy request) or is "*" (OPTIONS)
LoggedRequests ==
    { [ip |-> <<"1">>, timestamp |-> <<"t", " ", "+", "0">>,
       tokens |-> << <<"G">>, <<"/", "a">>, <<"H">> >>,
       status |-> 200, bytes |-> 5, referer |-> <<"-">>,
       user_agent |-> <<"B", "o", "t">>],
      [ip |-> <<"2">>, timestamp |-> <<"t">>,
       tokens |-> << <<"G">> >>,
       status |-> 400, bytes |-> 0, referer |-> <<>>,
       user_agent |-> <<"x">>],
      [ip |-> <<"3">>, timestamp |-> <<"t">>,
       tokens |-> << <<"G">>, <<"h", ":", "/", "/", "x", "/">>, <<"H">> >>,
       status |-> 200, bytes |-> 1, referer |-> <<"-">>,
       user_agent |-> <<"s", "P">>],
      [ip |-> <<"4">>, timestamp |-> <<"t">>,
       tokens |-> << <<"O">>, <<"*">>, <<"H">> >>,
       status |-> 200, bytes |-> 0, referer |-> <<"-">>,
       user_agent |-> <<"x">>] }

\* the line of the access log for a request, in the format parse_log_line expects
FormatLine(r) ==
    r.ip \o <<" ", "-", " ", "[">> \o r.timestamp \o <<"]", " ", "\"">>
        \o join(r.tokens) \o <<"\"", " ">> \o str(r.status) \o <<" ">>
        \o str(r.bytes) \o <<" ", "\"">> \o r.referer \o <<"\"", " ", "\"">>
        \o r.user_agent \o <<"\"">>

\* lines that are not in that format: a status that is no number, a blank line
MalformedLines ==
    { <<"1", " ", "-", " ", "[", "t", "]", " ", "\"", "G", "\"", " ", "o", "k",
        " ", "5", " ", "\"", "-", "\"", " ", "\"", "x", "\"">>,
      <<>> }

\* what json.load returns for a file that is JSON but no mapping, a list
\* for one: a value without .items()
NotAMapping == << <<"<list>">> >>

\* the signatures bot_parser.py loads: category -> patterns
ParserSignatures ==
    << <<<<"c", "r", "a", "w", "l">>, << <<"b", "O", "t">>, <<"s", "p">> >>>> >>

-----------------------------------------------------------------------------
(* bot_parser.py: main and tail_logs, one action per step between two     *)
(* accesses to the log file                                                *)

TailerInit ==
    /\ unwritten = <<>>
    /\ StoreUnused
    /\ ListsUnused
    /\ pc = "main"
    /\ signatures_file \in {"valid", "missing", "not_json"}
    /\ signatures = <<>>
    /\ file_exists \in BOOLEAN
    /\ file = <<>>
    /\ f_open = FALSE
    /\ f_pos = 0
    /\ conn_open = FALSE
    /\ bot_traffic = <<>>
    /\ last_id = 0
    /\ written = <<>>
    /\ attach_count = -1
    /\ ClassifierUnused
    /\ ParserUnused
    /\ CallsUnused

\* the web server appends one whole line, creating the file if need be
WriterAppend ==
    /\ Len(written) < MaxLines
    /\ \/ \E r \in LoggedRequests :
              /\ file' = file \o FormatLine(r) \o <<"\n">>
              /\ written' = Append(written, [ok |-> TRUE, request |-> r])
       \/ \E l \in MalformedLines :
              /\ file' = file \o l \o <<"\n">>
              /\ written' = Append(written, [ok |-> FALSE, text |-> l])
    /\ file_exists' = TRUE
    /\ UNCHANGED <<pc, signatures_file, signatures, f_open, f_pos, conn_open,
                   bot_traffic, last_id, attach_count>>
    /\ UNCHANGED <<classifier_vars, parser_vars, calls_vars, writer_vars, store_vars,
                   lists_vars>>

\* main: init_db(), then load_signatures(), which raises when the file is
\* missing or is no JSON, and nothing catches that; JSON of any shape is
\* returned as it is
MainStart ==
    /\ pc = "main"
    /\ conn_open' = TRUE
    /\ IF signatures_file = "valid"
       THEN signatures' = ParserSignatures /\ pc' = "wait_file"
       ELSE IF signatures_file = "not_mapping"
       THEN signatures' = NotAMapping /\ pc' = "wait_file"
       ELSE signatures' = signatures /\ pc' = "crashed"
    /\ UNCHANGED <<signatures_file, file_exists, file, f_open, f_pos, bot_traffic,
                   last_id, written, attach_count>>
    /\ UNCHANGED <<classifier_vars, parser_vars, calls_vars, writer_vars, store_vars,
                   lists_vars>>

\* tail_logs: `while not Path(LOG_FILE).exists(): time.sleep(1)`
TailerPoll ==
    /\ pc = "wait_file"
    /\ pc' = IF file_exists THEN "open" ELSE "wait_file_sleep"
    /\ UNCHANGED <<signatures_file, signatures, file_exists, file, f_open, f_pos,
                   conn_open, bot_traffic, last_id, written, attach_count>>
    /\ UNCHANGED <<classifier_vars, parser_vars, calls_vars, writer_vars, store_vars,
                   lists_vars>>

TailerPollWake ==
    /\ pc = "wait_file_sleep"
    /\ pc' = "wait_file"
    /\ UNCHANGED <<signatures_file, signatures, file_exists, file, f_open, f_pos,
                   conn_open, bot_traffic, last_id, written, attach_count>>
    /\ UNCHANGED <<classifier_vars, parser_vars, calls_vars, writer_vars, store_vars,
                   lists_vars>>

\* `with open(LOG_FILE, 'r') as f`; the error of a file that is gone leaves
\* tail_logs and main, whose `finally` closes the connection
TailerOpen ==
    /\ pc = "open"
    /\ IF file_exists
       THEN f_open' = TRUE /\ f_pos' = 0 /\ pc' = "seek" /\ conn_open' = conn_open
       ELSE f_open' = FALSE /\ f_pos' = f_pos /\ pc' = "crashed" /\ conn_open' = FALSE
    /\ UNCHANGED <<signatures_file, signatures, file_exists, file, bot_traffic,
                   last_id, written, attach_count>>
    /\ UNCHANGED <<classifier_vars, parser_vars, calls_vars, writer_vars, store_vars,
                   lists_vars>>

\* tail_logs without `f.seek(0, 2)`: reading starts at offset 0
TailerSeek_missing ==
    /\ pc = "seek"
    /\ f_pos' = 0
    /\ attach_count' = Len(written)
    /\ pc' = "read"
    /\ UNCHANGED <<signatures_file, signatures, file_exists, file, f_open, conn_open,
                   bot_traffic, last_id, written>>
    /\ UNCHANGED <<classifier_vars, parser_vars, calls_vars, writer_vars, store_vars,
                   lists_vars>>

\* `f.seek(0, 2)`
TailerSeek ==
    /\ pc = "seek"
    /\ f_pos' = Len(file)
    /\ attach_count' = Len(written)
    /\ pc' = "read"
    /\ UNCHANGED <<signatures_file, signatures, file_exists, file, f_open, conn_open,
                   bot_traffic, last_id, written>>
    /\ UNCHANGED <<classifier_vars, parser_vars, calls_vars, writer_vars, store_vars,
                   lists_vars>>

\* f.readline() at offset pos: through the next newline, or to the end of
\* the file when there is none
readline(content, pos) ==
    LET newlines == {i \in (pos + 1)..Len(content) : content[i] = "\n"}
    IN  IF newlines = {} THEN SubSeq(content, pos + 1, Len(content))
        ELSE SubSeq(content, pos + 1,
                    CHOOSE i \in newlines : \A k \in newlines : i <= k)

\* the row cursor.execute inserts for a parsed entry
row_of(entry, id, sigs) ==
    [id |-> id,
     timestamp |-> entry.timestamp,
     ip |-> entry.ip,
     user_agent |-> entry.user_agent,
     path |-> extract_path(entry.request),
     status |-> entry.status,
     category |-> classify_bot(entry.user_agent, sigs),
     referer |-> entry.referer]

\* TailerReadline without `if entry:`: entry['request'] of None raises
TailerReadline_no_check ==
    /\ pc = "read"
    /\ LET line == readline(file, f_pos)
           entry == parse_log_line(line)
       IN  IF line = <<>>
           THEN /\ pc' = "sleep"
                /\ UNCHANGED <<f_pos, bot_traffic, last_id, f_open, conn_open>>
           ELSE /\ f_pos' = f_pos + Len(line)
                /\ IF entry # NoEntry
                   THEN /\ bot_traffic' =
                               Append(bot_traffic, row_of(entry, last_id + 1, signatures))
                        /\ last_id' = last_id + 1
                        /\ pc' = "read"
                        /\ UNCHANGED <<f_open, conn_open>>
                   ELSE /\ pc' = "crashed"
                        /\ f_open' = FALSE
                        /\ conn_open' = FALSE
                        /\ UNCHANGED <<bot_traffic, last_id>>
    /\ UNCHANGED <<signatures_file, signatures, file_exists, file, written,
                   attach_count>>
    /\ UNCHANGED <<classifier_vars, parser_vars, calls_vars, writer_vars, store_vars,
                   lists_vars>>

\* one turn of `while True`: readline, then sleep, or parse, insert, commit;
\* classify_bot raises at signatures.items() when the signatures are no
\* mapping, which ends tail_logs and main as any error does
TailerReadline ==
    /\ pc = "read"
    /\ LET line == readline(file, f_pos)
           entry == parse_log_line(line)
       IN  IF line = <<>>
           THEN /\ pc' = "sleep"
                /\ UNCHANGED <<f_pos, bot_traffic, last_id, f_open, conn_open>>
           ELSE /\ f_pos' = f_pos + Len(line)
                /\ IF entry = NoEntry
                   THEN /\ pc' = "read"
                        /\ UNCHANGED <<bot_traffic, last_id, f_open, conn_open>>
                   ELSE IF signatures = NotAMapping
                   THEN /\ pc' = "crashed"
                        /\ f_open' = FALSE
                        /\ conn_open' = FALSE
                        /\ UNCHANGED <<bot_traffic, last_id>>
                   ELSE /\ pc' = "read"
                        /\ bot_traffic' =
                               Append(bot_traffic, row_of(entry, last_id + 1, signatures))
                        /\ last_id' = last_id + 1
                        /\ UNCHANGED <<f_open, conn_open>>
    /\ UNCHANGED <<signatures_file, signatures, file_exists, file, written,
                   attach_count>>
    /\ UNCHANGED <<classifier_vars, parser_vars, calls_vars, writer_vars, store_vars,
                   lists_vars>>

\* `time.sleep(0.1); continue`
TailerWake ==
    /\ pc = "sleep"
    /\ pc' = "read"
    /\ UNCHANGED <<signatures_file, signatures, file_exists, file, f_open, f_pos,
                   conn_open, bot_traffic, last_id, written, attach_count>>
    /\ UNCHANGED <<classifier_vars, parser_vars, calls_vars, writer_vars, store_vars,
                   lists_vars>>

\* the shutdown signal arrives while tail_logs runs: KeyboardInterrupt is
\* raised where it stands, a sleep included
Interrupt ==
    /\ pc \in {"wait_file", "wait_file_sleep", "open", "seek", "read", "sleep"}
    /\ pc' = "interrupted"
    /\ UNCHANGED <<signatures_file, signatures, file_exists, file, f_open, f_pos,
                   conn_open, bot_traffic, last_id, written, attach_count>>
    /\ UNCHANGED <<classifier_vars, parser_vars, calls_vars, writer_vars, store_vars,
                   lists_vars>>

\* Shutdown without main's `finally: conn.close()`
Shutdown_no_finally ==
    /\ pc = "interrupted"
    /\ pc' = "stopped"
    /\ f_open' = FALSE
    /\ UNCHANGED <<signatures_file, signatures, file_exists, file, f_pos, conn_open,
                   bot_traffic, last_id, written, attach_count>>
    /\ UNCHANGED <<classifier_vars, parser_vars, calls_vars, writer_vars, store_vars,
                   lists_vars>>

\* the exception leaves tail_logs: the `with` closes f, main prints
\* "Shutting down..." and its `finally` closes the connection
Shutdown ==
    /\ pc = "interrupted"
    /\ pc' = "stopped"
    /\ f_open' = FALSE
    /\ conn_open' = FALSE
    /\ UNCHANGED <<signatures_file, signatures, file_exists, file, f_pos,
                   bot_traffic, last_id, written, attach_count>>
    /\ UNCHANGED <<classifier_vars, parser_vars, calls_vars, writer_vars, store_vars,
                   lists_vars>>

TailerNext ==
    \/ WriterAppend
    \/ MainStart
    \/ TailerPoll
    \/ TailerPollWake
    \/ TailerOpen
    \/ TailerSeek
    \/ TailerReadline
    \/ TailerWake
    \/ Interrupt
    \/ Shutdown

SpecTail == TailerInit /\ [][TailerNext]_vars

-----------------------------------------------------------------------------
(* The tailer beside a writer whose lines reach the file in two writes    *)

\* how many lines the writer writes in parts
MaxChunked == 2

\* where the first write of a line may end: inside the source address, before
\* the closing quote of the user agent, before the newline, after the newline
Cuts(line) == {3, Len(line) - 2, Len(line) - 1, Len(line)}

\* the writer appends the first part of a line, creating the file if need be
WriterWrite ==
    /\ unwritten = <<>>
    /\ Len(written) < MaxChunked
    /\ \E r \in LoggedRequests :
           \E line \in {FormatLine(r) \o <<"\n">>} :
               \E k \in Cuts(line) :
                   /\ file' = file \o SubSeq(line, 1, k)
                   /\ unwritten' = SubSeq(line, k + 1, Len(line))
                   /\ written' = Append(written, [ok |-> TRUE, request |-> r])
    /\ file_exists' = TRUE
    /\ UNCHANGED <<pc, signatures_file, signatures, f_open, f_pos, conn_open,
                   bot_traffic, last_id, attach_count>>
    /\ UNCHANGED <<classifier_vars, parser_vars, calls_vars, store_vars,
                   lists_vars>>

\* the writer appends the rest of the line
WriterFinish ==
    /\ unwritten # <<>>
    /\ file' = file \o unwritten
    /\ unwritten' = <<>>
    /\ UNCHANGED <<pc, signatures_file, signatures, file_exists, f_open, f_pos,
                   conn_open, bot_traffic, last_id, written, attach_count>>
    /\ UNCHANGED <<classifier_vars, parser_vars, calls_vars, store_vars,
                   lists_vars>>

ChunkedNext ==
    \/ WriterWrite
    \/ WriterFinish
    \/ MainStart
    \/ TailerPoll
    \/ TailerPollWake
    \/ TailerOpen
    \/ TailerSeek
    \/ TailerReadline
    \/ TailerWake
    \/ Interrupt
    \/ Shutdown

SpecTailChunked == TailerInit /\ [][ChunkedNext]_vars

\* the same with the process going on running once the exception is raised
SpecTailFair == TailerInit /\ [][ChunkedNext]_vars /\ WF_vars(Shutdown)

-----------------------------------------------------------------------------
(* The tailer started on any bot_signatures.json: a valid one, none, one   *)
(* that is no JSON, one that is JSON but no mapping                        *)

CatalogInit ==
    /\ unwritten = <<>>
    /\ StoreUnused
    /\ ListsUnused
    /\ pc = "main"
    /\ signatures_file \in {"valid", "missing", "not_json", "not_mapping"}
    /\ signatures = <<>>
    /\ file_exists \in BOOLEAN
    /\ file = <<>>
    /\ f_open = FALSE
    /\ f_pos = 0
    /\ conn_open = FALSE
    /\ bot_traffic = <<>>
    /\ last_id = 0
    /\ written = <<>>
    /\ attach_count = -1
    /\ ClassifierUnused
    /\ ParserUnused
    /\ CallsUnused

SpecTailCatalog == CatalogInit /\ [][TailerNext]_vars

-----------------------------------------------------------------------------
(* The tailer beside a log file that is removed, as a rotation does.  Only *)
(* removals while tail_logs does not hold the file open are drawn: a       *)
(* removal under an open handle raises nothing in tail_logs.               *)

\* LOG_FILE is removed
FileRemove ==
    /\ file_exists
    /\ ~f_open
    /\ file_exists' = FALSE
    /\ file' = <<>>
    /\ UNCHANGED <<pc, signatures_file, signatures, f_open, f_pos, conn_open,
                   bot_traffic, last_id, written, attach_count>>
    /\ UNCHANGED <<classifier_vars, parser_vars, calls_vars, writer_vars, store_vars,
                   lists_vars>>

FaultsNext == TailerNext \/ FileRemove

SpecTailFaults == TailerInit /\ [][FaultsNext]_vars

-----------------------------------------------------------------------------
(* The store: table bot_traffic of the sqlite database, written by the     *)
(* tailers' connections and read by the dashboard and by the geolocation   *)
(* builder.  sqlite lets one connection at a time hold the write lock,     *)
(* from its INSERT to its commit; readers see committed rows only.         *)

\* how many rows are inserted
MaxRows == 3

\* the entries parse_log_line returns for the requests logged
ParsedEntries == {parse_log_line(FormatLine(r)) : r \in LoggedRequests}

\* StoreExecute with the id taken from a read made outside the write lock
StoreExecute_unlocked(c) ==
    /\ pending[c] = <<>>
    /\ Len(bot_traffic) + Cardinality({d \in Connections : pending[d] # <<>>}) < MaxRows
    /\ \E entry \in ParsedEntries :
           pending' = [pending EXCEPT ![c] = row_of(entry, last_id + 1, ParserSignatures)]
    /\ db_lock' = c
    /\ UNCHANGED <<snapshot, ip_geolocation>>
    /\ UNCHANGED <<pc, signatures_file, signatures, file_exists, file, f_open, f_pos,
                   conn_open, bot_traffic, last_id, written, attach_count>>
    /\ UNCHANGED <<classifier_vars, parser_vars, calls_vars, writer_vars,
                   lists_vars>>

\* cursor.execute('INSERT INTO bot_traffic ...') on connection c: the
\* connection takes the write lock and the row gets the next id of the
\* AUTOINCREMENT column
StoreExecute(c) ==
    /\ db_lock = 0
    /\ pending[c] = <<>>
    /\ Len(bot_traffic) + Cardinality({d \in Connections : pending[d] # <<>>}) < MaxRows
    /\ \E entry \in ParsedEntries :
           pending' = [pending EXCEPT ![c] = row_of(entry, last_id + 1, ParserSignatures)]
    /\ db_lock' = c
    /\ UNCHANGED <<snapshot, ip_geolocation>>
    /\ UNCHANGED <<pc, signatures_file, signatures, file_exists, file, f_open, f_pos,
                   conn_open, bot_traffic, last_id, written, attach_count>>
    /\ UNCHANGED <<classifier_vars, parser_vars, calls_vars, writer_vars,
                   lists_vars>>

\* conn.commit() on connection c
StoreCommit(c) ==
    /\ pending[c] # <<>>
    /\ bot_traffic' = Append(bot_traffic, pending[c])
    /\ last_id' = pending[c].id
    /\ pending' = [pending EXCEPT ![c] = <<>>]
    /\ db_lock' = 0
    /\ UNCHANGED <<snapshot, ip_geolocation>>
    /\ UNCHANGED <<pc, signatures_file, signatures, file_exists, file, f_open, f_pos,
                   conn_open, written, attach_count>>
    /\ UNCHANGED <<classifier_vars, parser_vars, calls_vars, writer_vars,
                   lists_vars>>

\* connection c is closed between the INSERT and the commit (the tailer is
\* interrupted there): the transaction is rolled back
StoreRollback(c) ==
    /\ pending[c] # <<>>
    /\ pending' = [pending EXCEPT ![c] = <<>>]
    /\ db_lock' = 0
    /\ UNCHANGED <<snapshot, ip_geolocation>>
    /\ UNCHANGED <<tailer_vars, classifier_vars, parser_vars, calls_vars, writer_vars,
                   lists_vars>>

\* the dashboard: SELECT COUNT(*), MAX(id) and the newest rows
DashboardQuery ==
    /\ snapshot' = [total |-> Len(bot_traffic),
                    max_id |-> IF bot_traffic = <<>> THEN 0
                               ELSE bot_traffic[Len(bot_traffic)].id,
                    newest |-> IF bot_traffic = <<>> THEN <<>>
                               ELSE <<bot_traffic[Len(bot_traffic)]>>]
    /\ UNCHANGED <<db_lock, pending, ip_geolocation>>
    /\ UNCHANGED <<tailer_vars, classifier_vars, parser_vars, calls_vars, writer_vars,
                   lists_vars>>

\* the geolocation builder: SELECT DISTINCT ip FROM bot_traffic, then
\* INSERT OR REPLACE INTO ip_geolocation and commit for an IP not yet there
GeolocationStore ==
    /\ db_lock = 0
    /\ \E ip \in {bot_traffic[i].ip : i \in DOMAIN bot_traffic} \ ip_geolocation :
           ip_geolocation' = ip_geolocation \cup {ip}
    /\ UNCHANGED <<db_lock, pending, snapshot>>
    /\ UNCHANGED <<tailer_vars, classifier_vars, parser_vars, calls_vars, writer_vars,
                   lists_vars>>

StoreInit ==
    /\ ClassifierUnused
    /\ ParserUnused
    /\ CallsUnused
    /\ TailerUnused

StoreNext ==
    \/ \E c \in Connections : StoreExecute(c)
    \/ \E c \in Connections : StoreCommit(c)
    \/ \E c \in Connections : StoreRollback(c)
    \/ DashboardQuery
    \/ GeolocationStore

SpecStore == StoreInit /\ [][StoreNext]_vars

-----------------------------------------------------------------------------
(* app.py: the filtered request lists of the dashboard.  Each handler      *)
(* reads the newest rows of bot_traffic and keeps at most MAX_PER_IP       *)
(* entries of one IP and MAX_TOTAL entries in all.                         *)

MAX_PER_IP == 3

MAX_TOTAL == 50

\* how many rows are inserted one by one
MaxListRows == 5

\* ... ORDER BY id DESC LIMIT n, over rows kept in rowid order
OrderByIdDescLimit(rows, n) ==
    LET newest_first == [i \in 1..Len(rows) |-> rows[Len(rows) + 1 - i]]
    IN  IF Len(newest_first) <= n THEN newest_first ELSE SubSeq(newest_first, 1, n)

\* sqlite's LIKE: % stands for any characters, _ for one, and ASCII letters
\* match in either case
RECURSIVE like_at(_, _, _, _)
like_at(pattern, s, i, p) ==
    IF i > Len(pattern) THEN p > Len(s)
    ELSE IF pattern[i] = "%"
    THEN \E q \in p..(Len(s) + 1) : like_at(pattern, s, i + 1, q)
    ELSE IF p > Len(s) THEN FALSE
    ELSE /\ pattern[i] = "_" \/ LowerChar(pattern[i]) = LowerChar(s[p])
         /\ like_at(pattern, s, i + 1, p + 1)

like(pattern, s) == like_at(pattern, s, 1, 1)

\* ip_count.get(current_ip, 0)
ip_count_get(ip_count, current_ip) ==
    IF current_ip \in DOMAIN ip_count THEN ip_count[current_ip] ELSE 0

\* add_entry without `ip_count[current_ip] = ip_count.get(current_ip, 0) + 1`
add_entry_uncounted(acc, entry, details) ==
    LET appended ==
            Append(acc.filtered_results,
                   [timestamp |-> entry.timestamp,
                    ip |-> entry.ip,
                    path |-> entry.path,
                    user_agent |-> entry.user_agent,
                    referer |-> entry.referer,
                    status |-> entry.status,
                    category |-> details.category,
                    threat_level |-> details.threat_level,
                    threat_score |-> details.threat_score,
                    matched_patterns |-> details.matched_patterns,
                    rowid |-> entry.id])
    IN  [filtered_results |-> appended,
         ip_count |-> acc.ip_count,
         done |-> Len(appended) >= MAX_TOTAL]

\* filtered_results.append({...}); ip_count[current_ip] = ... + 1; and the
\* `break` once MAX_TOTAL entries are there.  rowid is the id of the row the
\* entry was made from; the response does not carry it
add_entry(acc, entry, details) ==
    LET appended ==
            Append(acc.filtered_results,
                   [timestamp |-> entry.timestamp,
                    ip |-> entry.ip,
                    path |-> entry.path,
                    user_agent |-> entry.user_agent,
                    referer |-> entry.referer,
                    status |-> entry.status,
                    category |-> details.category,
                    threat_level |-> details.threat_level,
                    threat_score |-> details.threat_score,
                    matched_patterns |-> details.matched_patterns,
                    rowid |-> entry.id])
    IN  [filtered_results |-> appended,
         ip_count |-> [ip \in DOMAIN acc.ip_count \cup {entry.ip} |->
                          IF ip = entry.ip
                          THEN ip_count_get(acc.ip_count, entry.ip) + 1
                          ELSE acc.ip_count[ip]],
         done |-> Len(appended) >= MAX_TOTAL]

\* one turn of the loop of get_requests_by_threat and
\* get_requests_by_category: classify, compare the field that is filtered
\* on, then the IP's count
classified_step(acc, entry, details, field, wanted) ==
    IF acc.done THEN acc
    ELSE IF details[field] # wanted THEN acc
    ELSE IF ip_count_get(acc.ip_count, entry.ip) >= MAX_PER_IP THEN acc
    ELSE add_entry(acc, entry, details)

\* one turn of the loop of get_requests_by_path and get_requests_by_pattern:
\* the IP's count, then classify
selected_step(acc, entry, details) ==
    IF acc.done THEN acc
    ELSE IF ip_count_get(acc.ip_count, entry.ip) >= MAX_PER_IP THEN acc
    ELSE add_entry(acc, entry, details)

\* the turns lo..hi of `for entry in entries:`, from the loop's state acc;
\* the range is halved so that the evaluation does not nest once per entry.
\* classified[k] is what classify_traffic_detailed returns for entries[k]
RECURSIVE loop_range(_, _, _, _, _, _, _)
loop_range(entries, classified, field, wanted, acc, lo, hi) ==
    IF lo > hi THEN acc
    ELSE IF lo = hi
    THEN IF field = "none" THEN selected_step(acc, entries[lo], classified[lo])
         ELSE classified_step(acc, entries[lo], classified[lo], field, wanted)
    ELSE LET mid == (lo + hi) \div 2
         IN  CHOOSE next \in
                 { loop_range(entries, classified, field, wanted, half, mid + 1, hi) :
                     half \in {loop_range(entries, classified, field, wanted, acc,
                                          lo, mid)} } :
                 TRUE

\* `for entry in entries:` of the four handlers; field is "none" for the
\* handlers whose query did the filtering.  classify_traffic_detailed
\* depends on the entry alone, so it is applied to the entries beforehand
diversity_loop(sigs, entries, field, wanted) ==
    LET details(k) ==
            classify_traffic_detailed(sigs, entries[k].user_agent, entries[k].path)
        start == [filtered_results |-> <<>>, ip_count |-> <<>>, done |-> FALSE]
    IN  CHOOSE out \in
            { loop_range(entries, classified, field, wanted, start,
                         1, Len(entries)).filtered_results :
                classified \in {[k \in 1..Len(entries) |-> details(k)]} } : TRUE

ValidThreatLevels == {str_benign, str_reconnaissance, str_malicious}

\* The four handlers differ in what comes before the loop: the check of the
\* argument, the query, and the field the loop compares.  Each is modelled
\* up to its loop: status "error" is the 400 response, and otherwise
\* entries are the rows fetched, field is the classification field the
\* loop compares with wanted ("none": the query did the filtering)

\* GET /api/requests-by-threat/<threat_level>
get_requests_by_threat(rows, threat_level) ==
    IF threat_level \notin ValidThreatLevels
    THEN [status |-> "error", entries |-> <<>>, field |-> "none", wanted |-> <<>>]
    ELSE [status |-> "ok", entries |-> OrderByIdDescLimit(rows, 5000),
          field |-> "threat_level", wanted |-> threat_level]

\* GET /api/requests-by-category/<category>
get_requests_by_category(rows, category) ==
    [status |-> "ok", entries |-> OrderByIdDescLimit(rows, 5000),
     field |-> "category", wanted |-> category]

\* GET /api/requests-by-path?path=...
get_requests_by_path(rows, pth) ==
    IF pth = <<>>
    THEN [status |-> "error", entries |-> <<>>, field |-> "none", wanted |-> <<>>]
    ELSE [status |-> "ok",
          entries |-> OrderByIdDescLimit(SelectSeq(rows, LAMBDA r : r.path = pth), 200),
          field |-> "none", wanted |-> <<>>]

\* GET /api/requests-by-pattern?pattern=...
get_requests_by_pattern(rows, pattern) ==
    IF pattern = <<>>
    THEN [status |-> "error", entries |-> <<>>, field |-> "none", wanted |-> <<>>]
    ELSE [status |-> "ok",
          entries |-> OrderByIdDescLimit(SelectSeq(rows, LAMBDA r : like(pattern, r.path)),
                                         500),
          field |-> "none", wanted |-> <<>>]

\* the catalog the dashboard runs with
DashboardCatalog ==
    [benign |-> <<ua_google>>, security_scanners |-> <<ua_nikto>>,
     generic_clients |-> <<ua_curl>>,
     reconnaissance |-> <<recon_wp, recon_admin>>,
     malicious |-> <<mal_env, mal_shell>>]

\* the requests stored: one that matches nothing, one of a benign crawler,
\* one for a malicious path
kind_plain == [user_agent |-> <<"x">>, path |-> <<"/">>]

kind_crawler == [user_agent |-> <<"A", "b">>, path |-> <<"/">>]

kind_attack == [user_agent |-> <<"x">>, path |-> <<"/", "b", "a">>]

\* the row bot_parser.py stores for such a request from client number ip
stored_row(id, ip, kind) ==
    [id |-> id,
     timestamp |-> <<"t">>,
     ip |-> str(ip),
     user_agent |-> kind.user_agent,
     path |-> kind.path,
     status |-> 200,
     category |-> classify_bot(kind.user_agent, ParserSignatures),
     referer |-> <<"-">>]

\* a table of ips * per_ip rows: the clients take turns, or each sends its
\* rows in one run; the requests go through the cycle of kinds
bulk_table(ips, per_ip, round_robin, cycle) ==
    [i \in 1..(ips * per_ip) |->
        stored_row(i,
                   IF round_robin THEN ((i - 1) % ips) + 1
                   ELSE ((i - 1) \div per_ip) + 1,
                   cycle[((i - 1) % Len(cycle)) + 1])]

\* one request of client 2, then 201 requests of client 1 for the same path:
\* more than the 200 rows get_requests_by_path reads
flood_table ==
    [i \in 1..202 |-> stored_row(i, IF i = 1 THEN 2 ELSE 1, kind_attack)]

\* tables large enough for MAX_TOTAL to be reached
BulkTables ==
    { bulk_table(ips, per_ip, round_robin, cycle) :
        ips \in {17, 18}, per_ip \in {3, 4}, round_robin \in BOOLEAN,
        cycle \in { <<kind_attack>>, <<kind_attack, kind_attack, kind_crawler>> } }
        \cup {flood_table}

\* the filters asked for
ThreatArgs == ValidThreatLevels \cup { <<"h", "i", "g", "h">> }

CategoryArgs ==
    { str_unknown, str_benign_ \o <<"g", "b">>, str_malicious_ \o <<"s", "h">>,
      str_malicious }

PathArgs == { <<>>, <<"/">>, <<"/", "b", "a">>, <<"/", "B", "A">> }

PatternArgs == { <<>>, <<"%">>, <<"/", "B", "%">>, <<"/", "_", "_">>, <<"/">> }

\* the dashboard beside a table that holds rows already, or none
ListsInit ==
    /\ SIGNATURES = DashboardCatalog
    /\ user_agent = <<>>
    /\ path = <<>>
    /\ result = <<>>
    /\ detailed = <<>>
    /\ path_factor = <<>>
    /\ ParserUnused
    /\ CallsUnused
    /\ unwritten = <<>>
    /\ StoreUnused
    /\ ListsUnused
    /\ pc = "unused"
    /\ signatures_file = "valid"
    /\ signatures = <<>>
    /\ file_exists = FALSE
    /\ file = <<>>
    /\ f_open = FALSE
    /\ f_pos = 0
    /\ conn_open = FALSE
    /\ bot_traffic \in BulkTables \cup { <<>> }
    /\ last_id = Len(bot_traffic)
    /\ written = <<>>
    /\ attach_count = -1

\* bot_parser.py stores one more request, of client 1 or 2, between two
\* requests to the dashboard
ListInsert ==
    /\ list_route = "none"
    /\ Len(bot_traffic) < MaxListRows
    /\ \E ip \in {1, 2}, kind \in {kind_plain, kind_attack} :
           bot_traffic' = Append(bot_traffic, stored_row(last_id + 1, ip, kind))
    /\ last_id' = last_id + 1
    /\ UNCHANGED <<pc, signatures_file, signatures, file_exists, file, f_open, f_pos,
                   conn_open, written, attach_count>>
    /\ UNCHANGED <<classifier_vars, parser_vars, calls_vars, writer_vars, store_vars,
                   lists_vars>>

\* the filters asked for, by route
ListArgs ==
    [threat |-> ThreatArgs, category |-> CategoryArgs, path |-> PathArgs,
     pattern |-> PatternArgs]

\* a request to one of the four routes is answered: the handler's check and
\* query, then the loop the four handlers share
GetRequests ==
    /\ list_route = "none"
    /\ \E route \in DOMAIN ListArgs :
         \E arg \in ListArgs[route] :
           \E handler \in
                 { CASE route = "threat" -> get_requests_by_threat(bot_traffic, arg)
                     [] route = "category" -> get_requests_by_category(bot_traffic, arg)
                     [] route = "path" -> get_requests_by_path(bot_traffic, arg)
                     [] route = "pattern" -> get_requests_by_pattern(bot_traffic, arg) } :
               /\ list_route' = route
               /\ list_arg' = arg
               /\ list_status' = handler.status
               /\ filtered_results' =
                      IF handler.status = "error" THEN <<>>
                      ELSE diversity_loop(SIGNATURES, handler.entries, handler.field,
                                          handler.wanted)
    /\ UNCHANGED <<classifier_vars, parser_vars, tailer_vars, calls_vars, writer_vars,
                   store_vars>>

\* `return jsonify(...)`: the response is sent, the next request may come
ListsDeliver ==
    /\ list_route # "none"
    /\ list_route' = "none"
    /\ list_arg' = <<>>
    /\ list_status' = "ok"
    /\ filtered_results' = <<>>
    /\ UNCHANGED <<classifier_vars, parser_vars, tailer_vars, calls_vars, writer_vars,
                   store_vars>>

ListsNext ==
    \/ ListInsert
    \/ ListsDeliver
    \/ GetRequests

SpecLists == ListsInit /\ [][ListsNext]_vars

-----------------------------------------------------------------------------
(* What the claims about the classifier speak of, stated over the catalog *)
(* and the request without the classifier's loops.                         *)

\* the user-agent tiers in scan order, each with its prefix and default score
UaScan ==
    << [tier |-> "benign", prefix |-> str_benign_, default |-> -10],
       [tier |-> "security_scanners", prefix |-> str_scanner_, default |-> 20],
       [tier |-> "generic_clients", prefix |-> str_generic_, default |-> 5] >>

TierItems(sigs, tier) == IF tier \in DOMAIN sigs THEN sigs[tier] ELSE <<>>

\* category i of the tier has a pattern that occurs in the lowered user agent
UaCategoryMatches(sigs, tier, i, ua) ==
    LET config == TierItems(sigs, tier)[i][2]
    IN  /\ "user_agents" \in DOMAIN config
        /\ \E j \in DOMAIN config.user_agents :
               StrIn(lower(config.user_agents[j]), lower(ua))

\* the <<tier index, category index>> pairs whose category matches the user agent
UaMatches(sigs, ua) ==
    {m \in UNION {{<<t, i>> : i \in 1..Len(TierItems(sigs, UaScan[t].tier))} :
                     t \in DOMAIN UaScan} :
        UaCategoryMatches(sigs, UaScan[m[1]].tier, m[2], ua)}

\* the matched user-agent category: the first one of the scan
UaWinner(sigs, ua) ==
    CHOOSE m \in UaMatches(sigs, ua) :
        \A n \in UaMatches(sigs, ua) :
            m[1] < n[1] \/ (m[1] = n[1] /\ m[2] <= n[2])

UaWinnerName(sigs, ua) ==
    LET m == UaWinner(sigs, ua)
    IN  UaScan[m[1]].prefix \o TierItems(sigs, UaScan[m[1]].tier)[m[2]][1]

UaWinnerScore(sigs, ua) ==
    LET m == UaWinner(sigs, ua)
        config == TierItems(sigs, UaScan[m[1]].tier)[m[2]][2]
    IN  IF "threat_score" \in DOMAIN config THEN config.threat_score
        ELSE UaScan[m[1]].default

\* the patterns of category i of a path tier that match the lowered path
PathPatternHits(sigs, tier, i, pth) ==
    LET config == TierItems(sigs, tier)[i][2]
    IN  IF "path_patterns" \in DOMAIN config
        THEN {j \in DOMAIN config.path_patterns :
                 re_search(config.path_patterns[j], lower(pth), TRUE)}
        ELSE {}

\* the categories of a path tier that have a matching pattern
PathMatches(sigs, tier, pth) ==
    {i \in 1..Len(TierItems(sigs, tier)) : PathPatternHits(sigs, tier, i, pth) # {}}

PathCategoryScore(sigs, tier, i, default) ==
    LET config == TierItems(sigs, tier)[i][2]
    IN  IF "threat_score" \in DOMAIN config THEN config.threat_score ELSE default

RECURSIVE SumScores(_, _, _, _)
SumScores(sigs, tier, S, default) ==
    IF S = {} THEN 0
    ELSE LET i == CHOOSE x \in S : TRUE
         IN  PathCategoryScore(sigs, tier, i, default)
                 + SumScores(sigs, tier, S \ {i}, default)

ReconScore(sigs, pth) ==
    SumScores(sigs, "reconnaissance", PathMatches(sigs, "reconnaissance", pth), 10)

MaliciousScore(sigs, pth) ==
    SumScores(sigs, "malicious", PathMatches(sigs, "malicious", pth), 50)

\* how many times x occurs in the list
Occurrences(list, x) == Cardinality({k \in DOMAIN list : list[k] = x})

-----------------------------------------------------------------------------
(* Claims about the classifier, checked under SpecClassify *)

\* C1: the score classify_traffic returns is the score of the matched
\* user-agent category (0 if none matched) plus the threat scores of every
\* reconnaissance category with a matching pattern plus those of every
\* malicious category with a matching pattern.
C1_ScoreIsSumOfFactors ==
    result # <<>> =>
        result[3] =
            (IF UaMatches(SIGNATURES, user_agent) # {}
             THEN UaWinnerScore(SIGNATURES, user_agent) ELSE 0)
            + ReconScore(SIGNATURES, path)
            + MaliciousScore(SIGNATURES, path)

\* a call in which the user agent, two reconnaissance categories and two
\* malicious categories all contributed
C1_Witness ==
    /\ result # <<>>
    /\ UaMatches(SIGNATURES, user_agent) # {}
    /\ Cardinality(PathMatches(SIGNATURES, "reconnaissance", path)) = 2
    /\ Cardinality(PathMatches(SIGNATURES, "malicious", path)) = 2
    /\ result[3] = 95

\* C2: the threat level is decided by the total score alone, in half-open
\* bands: below 0 benign, from 0 to 19 reconnaissance, from 20 malicious; so
\* -1 is benign, 0 and 19 are reconnaissance, 20 is malicious, and every
\* score gets exactly one level.
C2_ThreatLevelBands ==
    result # <<>> =>
        /\ result[2] \in {str_benign, str_reconnaissance, str_malicious}
        /\ result[2] = str_benign <=> result[3] < 0
        /\ result[2] = str_reconnaissance <=> (0 <= result[3] /\ result[3] < 20)
        /\ result[2] = str_malicious <=> result[3] >= 20
        /\ result[3] = -1 => result[2] = str_benign
        /\ result[3] \in {0, 19} => result[2] = str_reconnaissance
        /\ result[3] = 20 => result[2] = str_malicious

\* a call whose total score is 19, the highest reconnaissance score
C2_Witness == result # <<>> /\ result[3] = 19 /\ result[2] = str_reconnaissance

\* C3: whenever a user-agent pattern matches, the primary category is the
\* user-agent category, whatever path categories match and even when the
\* threat level is malicious.
C3_UserAgentCategoryIsPrimary ==
    (result # <<>> /\ UaMatches(SIGNATURES, user_agent) # {}) =>
        result[1] = UaWinnerName(SIGNATURES, user_agent)

\* a call with a user-agent match, a reconnaissance match and a malicious
\* match, scored malicious
C3_Witness ==
    /\ result # <<>>
    /\ UaMatches(SIGNATURES, user_agent) # {}
    /\ PathMatches(SIGNATURES, "reconnaissance", path) # {}
    /\ PathMatches(SIGNATURES, "malicious", path) # {}
    /\ result[2] = str_malicious

\* C4: with no user-agent match, a path that matches a malicious category
\* and a reconnaissance category has a malicious category as primary
\* category, in whatever order the catalog declares the categories.
C4_MaliciousOutranksRecon ==
    (/\ result # <<>>
     /\ UaMatches(SIGNATURES, user_agent) = {}
     /\ PathMatches(SIGNATURES, "reconnaissance", path) # {}
     /\ PathMatches(SIGNATURES, "malicious", path) # {}) =>
        \E i \in PathMatches(SIGNATURES, "malicious", path) :
            result[1] = str_malicious_ \o TierItems(SIGNATURES, "malicious")[i][1]

\* a call with no user-agent match in which both path tiers matched
C4_Witness ==
    /\ result # <<>>
    /\ UaMatches(SIGNATURES, user_agent) = {}
    /\ Cardinality(PathMatches(SIGNATURES, "reconnaissance", path)) = 2
    /\ PathMatches(SIGNATURES, "malicious", path) # {}

\* C5: a path category adds its score once and appears once in the category
\* list when any of its patterns match, however many do, and not at all
\* otherwise; the categories after it in the tier are still evaluated.
C5_CategoryCountedOnce ==
    path_factor # <<>> =>
        /\ \A i \in 1..Len(TierItems(SIGNATURES, "reconnaissance")) :
               Occurrences(path_factor[1],
                   str_recon_ \o TierItems(SIGNATURES, "reconnaissance")[i][1])
               = IF i \in PathMatches(SIGNATURES, "reconnaissance", path)
                 THEN 1 ELSE 0
        /\ \A i \in 1..Len(TierItems(SIGNATURES, "malicious")) :
               Occurrences(path_factor[1],
                   str_malicious_ \o TierItems(SIGNATURES, "malicious")[i][1])
               = IF i \in PathMatches(SIGNATURES, "malicious", path)
                 THEN 1 ELSE 0
        /\ path_factor[2] =
               ReconScore(SIGNATURES, path) + MaliciousScore(SIGNATURES, path)

\* a path that two patterns of the first reconnaissance category match and
\* that the category declared after it matches too
C5_Witness ==
    /\ path_factor # <<>>
    /\ Len(TierItems(SIGNATURES, "reconnaissance")) = 2
    /\ Cardinality(PathPatternHits(SIGNATURES, "reconnaissance", 1, path)) = 2
    /\ 2 \in PathMatches(SIGNATURES, "reconnaissance", path)

\* C7: classify_traffic_detailed returns the same primary category, threat
\* level and score as classify_traffic on the same request.
C7_DetailedAgrees ==
    (result # <<>> /\ detailed # <<>>) =>
        /\ detailed.category = result[1]
        /\ detailed.threat_level = result[2]
        /\ detailed.threat_score = result[3]

\* both were called on a request matching a malicious category that relies
\* on the default score
C7_Witness ==
    /\ result # <<>>
    /\ detailed # <<>>
    /\ \E i \in PathMatches(SIGNATURES, "malicious", path) :
           "threat_score" \notin DOMAIN TierItems(SIGNATURES, "malicious")[i][2]
    /\ UaMatches(SIGNATURES, user_agent) # {}

\* C8: when no user-agent pattern and no path pattern matches, the result
\* is 'unknown' with score 0 and level reconnaissance; and the primary
\* category is 'unknown' in that case only.
C8_UnknownIffNothingMatched ==
    result # <<>> =>
        LET nothing == /\ UaMatches(SIGNATURES, user_agent) = {}
                       /\ PathMatches(SIGNATURES, "reconnaissance", path) = {}
                       /\ PathMatches(SIGNATURES, "malicious", path) = {}
        IN  /\ nothing => result = <<str_unknown, str_reconnaissance, 0>>
            /\ result[1] = str_unknown => nothing

\* nothing matched a non-empty request under a catalog with all five tiers
C8_Witness ==
    /\ result = <<str_unknown, str_reconnaissance, 0>>
    /\ user_agent # <<>>
    /\ path # <<>>
    /\ Cardinality(DOMAIN SIGNATURES) = 5
    /\ \A tier \in DOMAIN SIGNATURES : SIGNATURES[tier] # <<>>

\* m comes before n in the scan: an earlier tier, or the same tier and an
\* earlier category of it
ScannedBefore(m, n) == m[1] < n[1] \/ (m[1] = n[1] /\ m[2] <= n[2])

\* the name the user-agent factor gives category m
UaName(sigs, m) ==
    UaScan[m[1]].prefix \o TierItems(sigs, UaScan[m[1]].tier)[m[2]][1]

\* the evidence string for category m: it quotes the first pattern, in
\* declared order, that occurs in the user agent
UaEvidence(sigs, m, ua) ==
    LET item == TierItems(sigs, UaScan[m[1]].tier)[m[2]]
        hits == {j \in DOMAIN item[2].user_agents :
                    StrIn(lower(item[2].user_agents[j]), lower(ua))}
        pattern == item[2].user_agents[CHOOSE j \in hits : \A k \in hits : j <= k]
    IN  IF m[1] = 1 THEN str_ua_matches \o item[1] \o str_colon \o pattern
        ELSE IF m[1] = 2 THEN str_scanner_detected \o pattern
        ELSE str_generic_client \o pattern

\* C12: the user-agent factor stops at the first match of its scan (tiers in
\* the order benign, security_scanners, generic_clients; categories in
\* catalog order; patterns in declared order): exactly one of the matching
\* categories gives the primary category, its score and one evidence
\* string, and it is the one scanned before all other matching categories;
\* with no match the user agent contributes nothing.
C12_FirstUserAgentMatchWins ==
    (result # <<>> /\ detailed # <<>>) =>
        LET M == UaMatches(SIGNATURES, user_agent)
            paths == Cardinality(PathMatches(SIGNATURES, "reconnaissance", path))
                         + Cardinality(PathMatches(SIGNATURES, "malicious", path))
            rest == ReconScore(SIGNATURES, path) + MaliciousScore(SIGNATURES, path)
        IN  /\ Len(detailed.matched_patterns) = paths + (IF M = {} THEN 0 ELSE 1)
            /\ M = {} => result[3] = rest
            /\ \A m \in M :
                   (\A n \in M : ScannedBefore(m, n)) =>
                       /\ result[1] = UaName(SIGNATURES, m)
                       /\ detailed.category = UaName(SIGNATURES, m)
                       /\ detailed.matched_patterns[1]
                              = UaEvidence(SIGNATURES, m, user_agent)
                       /\ result[3] = rest + PathCategoryScore(SIGNATURES,
                              UaScan[m[1]].tier, m[2], UaScan[m[1]].default)
            /\ \A m \in M :
                   (\E n \in M : ~ScannedBefore(m, n)) =>
                       result[1] # UaName(SIGNATURES, m)

\* a user agent that matches a category of the scanner tier and one of the
\* generic tier, the latter by its second pattern
C12_Witness ==
    /\ result # <<>>
    /\ detailed # <<>>
    /\ {m[1] : m \in UaMatches(SIGNATURES, user_agent)} = {2, 3}

\* the names of the tier's categories that match the path, with the
\* prefix, in the order the tier is scanned (the order of discovery)
Discovered(sigs, tier, prefix, pth) ==
    LET items == TierItems(sigs, tier)
        upto[k \in 0..Len(items)] ==
            IF k = 0 THEN <<>>
            ELSE IF k \in PathMatches(sigs, tier, pth)
            THEN Append(upto[k - 1], prefix \o items[k][1])
            ELSE upto[k - 1]
    IN  upto[Len(items)]

Reversed(list) == [i \in 1..Len(list) |-> list[Len(list) + 1 - i]]

\* C13: the category list of the path factor is the matched malicious
\* categories in reverse order of discovery followed by the matched
\* reconnaissance categories in order of discovery; so with several
\* malicious matches and no user-agent match the primary category is the
\* malicious category discovered last.
C13_MaliciousReversedThenRecon ==
    LET mal == Discovered(SIGNATURES, "malicious", str_malicious_, path)
        recon == Discovered(SIGNATURES, "reconnaissance", str_recon_, path)
        last_found == (Len(mal) >= 2 /\ UaMatches(SIGNATURES, user_agent) = {})
    IN  /\ path_factor # <<>> => path_factor[1] = Reversed(mal) \o recon
        /\ (result # <<>> /\ last_found) => result[1] = mal[Len(mal)]
        /\ (detailed # <<>> /\ last_found) => detailed.category = mal[Len(mal)]

\* a path matching two malicious and two reconnaissance categories, under
\* a user agent that matches nothing, classified by all three entry points
C13_Witness ==
    /\ path_factor # <<>>
    /\ result # <<>>
    /\ detailed # <<>>
    /\ UaMatches(SIGNATURES, user_agent) = {}
    /\ Len(Discovered(SIGNATURES, "malicious", str_malicious_, path)) = 2
    /\ Len(Discovered(SIGNATURES, "reconnaissance", str_recon_, path)) = 2
    /\ Len(path_factor[1]) = 4

\* the five tiers a catalog may hold
AllTiers ==
    {"benign", "security_scanners", "generic_clients", "reconnaissance", "malicious"}

\* the catalog with its absent tiers present and empty
WithAllTiers(sigs) == [tier \in AllTiers |-> TierItems(sigs, tier)]

\* C19: a catalog in which tiers are absent is classified as if those tiers
\* were present and empty: every call returns a result, and it is the
\* result the catalog completed with empty tiers gives.
C19_AbsentTierIsEmptyTier ==
    /\ result # <<>> =>
           result = classify_traffic(WithAllTiers(SIGNATURES), user_agent, path)
    /\ detailed # <<>> =>
           detailed = classify_traffic_detailed(WithAllTiers(SIGNATURES), user_agent, path)
    /\ path_factor # <<>> =>
           path_factor = classify_path(WithAllTiers(SIGNATURES), lower(path))

\* a catalog without the scanner tier and without the reconnaissance tier,
\* on a request whose user agent and path both match what is there
C19_Witness ==
    /\ result # <<>>
    /\ detailed # <<>>
    /\ path_factor # <<>>
    /\ DOMAIN SIGNATURES = {"benign", "generic_clients", "malicious"}
    /\ UaMatches(SIGNATURES, user_agent) # {}
    /\ PathMatches(SIGNATURES, "malicious", path) # {}

\* the catalog with no tier at all
C19_WitnessEmptyCatalog ==
    /\ result = <<str_unknown, str_reconnaissance, 0>>
    /\ DOMAIN SIGNATURES = {}
    /\ user_agent # <<>>
    /\ path # <<>>

\* the evidence strings of the tier's categories that match the path, in
\* the order the tier is scanned: the label, then the category's
\* description, or its name in title case when it has none
DiscoveredEvidence(sigs, tier, label, pth) ==
    LET items == TierItems(sigs, tier)
        described(item) ==
            IF "description" \in DOMAIN item[2] THEN item[2].description
            ELSE title(replace(item[1], "_", " "))
        upto[k \in 0..Len(items)] ==
            IF k = 0 THEN <<>>
            ELSE IF k \in PathMatches(sigs, tier, pth)
            THEN Append(upto[k - 1], label \o described(items[k]))
            ELSE upto[k - 1]
    IN  upto[Len(items)]

\* the categories that contribute to a classification, in the order of the
\* category list
Contributing(sigs, ua, pth) ==
    (IF UaMatches(sigs, ua) = {} THEN <<>> ELSE <<UaWinnerName(sigs, ua)>>)
        \o Reversed(Discovered(sigs, "malicious", str_malicious_, pth))
        \o Discovered(sigs, "reconnaissance", str_recon_, pth)

\* C21: the evidence list of classify_traffic_detailed is parallel to the
\* category list: one evidence string per contributing category, in the
\* same order (the user-agent evidence first when a user-agent category
\* matched, then malicious evidence in reverse order of discovery, then
\* reconnaissance evidence in order of discovery), and it is empty exactly
\* when the primary category is "unknown".
C21_EvidenceParallelToCategories ==
    detailed # <<>> =>
        LET M == UaMatches(SIGNATURES, user_agent)
            cats == Contributing(SIGNATURES, user_agent, path)
            evidence ==
                (IF M = {} THEN <<>>
                 ELSE <<UaEvidence(SIGNATURES, UaWinner(SIGNATURES, user_agent),
                                   user_agent)>>)
                    \o Reversed(DiscoveredEvidence(SIGNATURES, "malicious",
                                                   str_malicious_pattern, path))
                    \o DiscoveredEvidence(SIGNATURES, "reconnaissance",
                                          str_path_pattern, path)
        IN  /\ detailed.matched_patterns = evidence
            /\ Len(detailed.matched_patterns) = Len(cats)
            /\ (detailed.matched_patterns = <<>>) <=> (detailed.category = str_unknown)
            /\ cats # <<>> => detailed.category = cats[1]

\* a request matching a user-agent category, two malicious categories and
\* two reconnaissance categories: five evidence strings
C21_Witness ==
    /\ detailed # <<>>
    /\ UaMatches(SIGNATURES, user_agent) # {}
    /\ Len(Discovered(SIGNATURES, "malicious", str_malicious_, path)) = 2
    /\ Len(Discovered(SIGNATURES, "reconnaissance", str_recon_, path)) = 2
    /\ Len(detailed.matched_patterns) = 5

\* a request matching nothing: no evidence, primary category "unknown"
C21_WitnessUnknown ==
    /\ detailed # <<>>
    /\ detailed.matched_patterns = <<>>
    /\ detailed.category = str_unknown
    /\ user_agent # <<>>
    /\ path # <<>>

-----------------------------------------------------------------------------
(* Claims about the request line, checked under SpecParse *)

\* the positions at which a token of the request line starts
TokenStarts(s) ==
    {i \in 1..Len(s) : s[i] \notin Whitespace /\ (i = 1 \/ s[i - 1] \in Whitespace)}

\* the token that starts at position i: up to the next whitespace or the end
TokenAt(s, i) ==
    LET stops == {j \in i..Len(s) : j = Len(s) \/ s[j + 1] \in Whitespace}
    IN  SubSeq(s, i, CHOOSE j \in stops : \A k \in stops : j <= k)

\* C10: extract_path splits the request line on whitespace and returns its
\* second token; with fewer than two tokens it returns '/'.
C10_ExtractPathSecondToken ==
    extracted # None =>
        IF Cardinality(TokenStarts(request)) < 2
        THEN extracted = <<"/">>
        ELSE \E i \in TokenStarts(request) :
                 /\ Cardinality({k \in TokenStarts(request) : k < i}) = 1
                 /\ extracted = TokenAt(request, i)

\* a request line that starts with whitespace and whose two tokens are
\* separated by a tab
C10_Witness ==
    /\ request = <<" ", "G", "\t", "/", "G">>
    /\ extracted = <<"/", "G">>

-----------------------------------------------------------------------------
(* Claims about the tailer, checked under SpecTail *)

\* the fields of a stored row that come from the log line
StoredFields(row) ==
    [timestamp |-> row.timestamp, ip |-> row.ip, user_agent |-> row.user_agent,
     path |-> row.path, status |-> row.status, referer |-> row.referer]

\* the same fields of the request the web server logged
LoggedFields(r) ==
    [timestamp |-> r.timestamp, ip |-> r.ip, user_agent |-> r.user_agent,
     path |-> IF Len(r.tokens) > 1 THEN r.tokens[2] ELSE <<"/">>,
     status |-> r.status, referer |-> r.referer]

IsWellFormed(w) == w.ok

\* the well-formed lines appended after the tailer sought to the end
WellFormedAfterAttach ==
    SelectSeq(SubSeq(written, attach_count + 1, Len(written)), IsWellFormed)

WrittenText(i) ==
    IF written[i].ok THEN FormatLine(written[i].request) ELSE written[i].text

\* the offset at which the i-th appended line ends, its newline included
LineEnd(i) ==
    LET upto[k \in 0..i] ==
            IF k = 0 THEN 0 ELSE upto[k - 1] + Len(WrittenText(k)) + 1
    IN  upto[i]

\* the tailer is about to read the i-th appended line
AboutToRead(i) == pc = "read" /\ f_open /\ f_pos = LineEnd(i - 1) /\ f_pos < Len(file)

\* the well-formed lines among lines a..b the writer appended
WellFormedAmong(a, b) == SelectSeq(SubSeq(written, a, b), IsWellFormed)

C11_StoredPathStartsWithSlash ==
    \A i \in 1..Len(bot_traffic) :
        /\ bot_traffic[i].path # <<>>
        /\ bot_traffic[i].path[1] = "/"

-----------------------------------------------------------------------------
(* Claims about the tailer beside a writer of partial lines, checked under *)
(* SpecTailChunked                                                          *)

\* the text at the tailer's offset is a part of a line: it has no terminator
PartialLineAhead ==
    LET line == readline(file, f_pos)
    IN  line # <<>> /\ line[Len(line)] # "\n"

\* C14: while only a part of a line is in the file at the tailer's offset,
\* no step of the tailer hands it to the parser or moves the offset: the
\* offset and the stored records stay as they are until the terminator is
\* written.
C14_PartialLineNotConsumed ==
    [][(pc = "read" /\ PartialLineAhead) =>
           (f_pos' = f_pos /\ bot_traffic' = bot_traffic)]_vars

\* C15: once the shutdown signal has arrived, in the wait for the file or
\* in the wait for more bytes as anywhere else in tail_logs, the tailer
\* eventually terminates; in the terminated state the file handle and the
\* store connection are closed, and from then on no record is inserted.
C15_InterruptTerminates ==
    /\ (pc = "interrupted") ~> (pc = "stopped")
    /\ [](pc = "stopped" => (~f_open /\ ~conn_open))
    /\ [][pc = "stopped" => (pc' = "stopped" /\ bot_traffic' = bot_traffic)]_vars

\* the tailer terminated after it had stored a record, with text in the
\* file it had not read yet
C15_Witness ==
    /\ pc = "stopped"
    /\ ~f_open
    /\ ~conn_open
    /\ bot_traffic # <<>>
    /\ f_pos < Len(file)

-----------------------------------------------------------------------------
(* Claims about the tailer beside a file that is removed, checked under    *)
(* SpecTailFaults                                                           *)

\* C17: a file error does not terminate the tailer: when the file is gone
\* at the moment tail_logs opens it, the tailer's next step takes it back
\* to polling for the file (or to the shutdown a signal asks for), with the
\* store connection still open.
C17_FileErrorBackToPolling ==
    [][(pc = "open" /\ ~file_exists /\ pc' # pc) =>
           /\ pc' \in {"wait_file", "wait_file_sleep", "interrupted"}
           /\ conn_open']_vars

-----------------------------------------------------------------------------
(* Claims about the store, checked under SpecStore *)

\* C18: the table is append-only with strictly increasing ids: whatever a
\* connection, the dashboard or the geolocation builder does, every row
\* stored before the step is still there, in its place and unchanged, and
\* every row the step adds has a larger id than every row stored before.
C18_AppendOnlyIncreasingIds ==
    [][/\ Len(bot_traffic') >= Len(bot_traffic)
       /\ SubSeq(bot_traffic', 1, Len(bot_traffic)) = bot_traffic
       /\ \A i \in 1..Len(bot_traffic) :
              \A j \in (Len(bot_traffic) + 1)..Len(bot_traffic') :
                  bot_traffic'[j].id > bot_traffic[i].id]_vars

\* two rows are committed, the second connection holds the write lock with
\* a third row, the dashboard read the table when it had one row, and the
\* geolocation builder has stored an IP
C18_Witness ==
    /\ Len(bot_traffic) = 2
    /\ db_lock = 2
    /\ pending[2] # <<>>
    /\ pending[2].id = 3
    /\ snapshot # <<>>
    /\ snapshot.total = 1
    /\ ip_geolocation # {}

-----------------------------------------------------------------------------
(* Claims about the tailer's start, checked under SpecTailCatalog *)

\* C20: nothing is tailed or classified without a catalog loaded
\* successfully: when the catalog file is missing or malformed the process
\* stops at startup, so the tailer is never waiting for the log file or
\* reading it and no record is inserted.
C20_NoTailingWithoutCatalog ==
    signatures_file # "valid" =>
        /\ pc \in {"main", "crashed"}
        /\ ~f_open
        /\ f_pos = 0
        /\ bot_traffic = <<>>

-----------------------------------------------------------------------------
(* Claims about the dashboard's filtered lists, checked under SpecLists *)

\* the row satisfies the filter of the query the route sends
QueryMatch(route, arg, row) ==
    CASE route = "path" -> row.path = arg
      [] route = "pattern" -> like(arg, row.path)
      [] OTHER -> TRUE

\* the request of the row or entry satisfies the filter of the route's loop
LoopMatch(route, arg, row) ==
    CASE route = "threat" ->
             classify_traffic_detailed(SIGNATURES, row.user_agent, row.path).threat_level
                 = arg
      [] route = "category" ->
             classify_traffic_detailed(SIGNATURES, row.user_agent, row.path).category
                 = arg
      [] OTHER -> TRUE

\* how many rows the route's query reads at most
QueryWindow(route) ==
    CASE route = "path" -> 200
      [] route = "pattern" -> 500
      [] OTHER -> 5000

\* the ids of the rows that satisfy the requested filter among the rows the
\* query reads
Candidates(route, arg) ==
    LET queried == {i \in DOMAIN bot_traffic : QueryMatch(route, arg, bot_traffic[i])}
    IN  { bot_traffic[i].id :
            i \in {j \in queried :
                     /\ Cardinality({k \in queried : k > j}) < QueryWindow(route)
                     /\ LoopMatch(route, arg, bot_traffic[j])} }

\* the ids of the rows the entries of the response were made from
Listed == {filtered_results[i].rowid : i \in DOMAIN filtered_results}

\* the candidate is left out because three newer entries have its IP
SkippedForItsIp(id) ==
    /\ id \notin Listed
    /\ Cardinality({i \in DOMAIN filtered_results :
                       /\ filtered_results[i].ip = bot_traffic[id].ip
                       /\ filtered_results[i].rowid > id}) = MAX_PER_IP

\* C22: a filtered request list holds at most 3 entries of one source IP and
\* at most 50 entries; every entry is a stored request that satisfies the
\* requested filter; the entries are in descending id order; and a request
\* that satisfies the filter is left out only because its own IP has 3
\* newer entries or because 50 newer entries fill the list, so that an entry
\* skipped for its IP does not keep out later entries of other IPs.
C22_ListsCappedOrderedComplete ==
    (list_route # "none" /\ list_status = "ok") =>
        \A candidates \in {Candidates(list_route, list_arg)} :
            /\ \A i \in DOMAIN filtered_results :
                   Cardinality({j \in DOMAIN filtered_results :
                                   filtered_results[j].ip = filtered_results[i].ip})
                       <= MAX_PER_IP
            /\ Len(filtered_results) <= MAX_TOTAL
            /\ \A i \in DOMAIN filtered_results :
                   LET entry == filtered_results[i]
                       row == bot_traffic[entry.rowid]
                   IN  /\ entry.rowid \in candidates
                       /\ row.id = entry.rowid
                       /\ entry.ip = row.ip
                       /\ entry.path = row.path
                       /\ entry.user_agent = row.user_agent
                       /\ QueryMatch(list_route, list_arg, entry)
                       /\ list_route = "threat" => entry.threat_level = list_arg
                       /\ list_route = "category" => entry.category = list_arg
            /\ \A i, j \in DOMAIN filtered_results :
                   i < j => filtered_results[i].rowid > filtered_results[j].rowid
            /\ \A id \in candidates \ Listed :
                   \/ SkippedForItsIp(id)
                   \/ /\ Len(filtered_results) = MAX_TOTAL
                      /\ \A listed \in Listed : listed > id

\* a list of 50 malicious requests in which a request was skipped for its IP
\* and an older request of another IP is listed
C22_Witness ==
    /\ list_route = "threat"
    /\ list_status = "ok"
    /\ Len(filtered_results) = MAX_TOTAL
    /\ \E id \in Candidates(list_route, list_arg) :
           /\ SkippedForItsIp(id)
           /\ \E i \in DOMAIN filtered_results :
                  /\ filtered_results[i].rowid < id
                  /\ filtered_results[i].ip # bot_traffic[id].ip

-----------------------------------------------------------------------------
(* Claims about repeated classification, checked under SpecCalls *)

\* the two calls of the history were given the same user agent and path
SameRequest(a, b) ==
    /\ a # <<>>
    /\ b # <<>>
    /\ a.entry.user_agent = b.entry.user_agent
    /\ a.entry.path = b.entry.path

\* the category, level and score a call returned: classify_traffic returns
\* them as a tuple, classify_entry as three fields of the returned dict
Classification(call) ==
    IF call.via = "classify_entry"
    THEN <<call.returned.category, call.returned.threat_level,
           call.returned.threat_score>>
    ELSE call.returned

\* C9: the result of a classification depends only on the user agent, the
\* path and the catalog: after every call, the first call and the latest
\* call return the same category, level and score when they were given the
\* same user agent and path, whatever calls were made in between and
\* whatever the rows' other fields are; and no call changes the catalog.
C9_ResultDependsOnRequestOnly ==
    [][/\ SIGNATURES' = SIGNATURES
       /\ SameRequest(first_call', last_call') =>
              Classification(first_call') = Classification(last_call')]_vars

\* three calls, the first and the last through classify_entry on rows with
\* the same user agent and path but another source IP and another stored
\* category, with a call in between; the request is scored malicious
C9_Witness ==
    /\ n_calls = 3
    /\ SameRequest(first_call, last_call)
    /\ first_call.via = "classify_entry"
    /\ last_call.via = "classify_entry"
    /\ first_call.entry.ip # last_call.entry.ip
    /\ first_call.entry.category # last_call.entry.category
    /\ Classification(first_call)[3] >= 20

\* a classify_entry call and a classify_traffic call on the same request
C9_WitnessBothRoutes ==
    /\ n_calls >= 2
    /\ SameRequest(first_call, last_call)
    /\ first_call.via # last_call.via

====
